---------------------------- MODULE Spec2Model ----------------------------
(***************************************************************************)
(* The URL shortener of irc-agent (url_shortener.go, storage.go).          *)
(*                                                                         *)
(* Go strings are byte strings.  They are written here as TLA+ strings     *)
(* over printable ASCII and \t \n \f \r (the domain of Ord) and         *)
(* turned into their bytes (ToBytes) where the code reads the bytes: the   *)
(* SHA-256 digest.                                                         *)
(***************************************************************************)
EXTENDS Naturals, Sequences, FiniteSets, TLC

(***************************************************************************)
(* Bytes of a string: []byte(url).                                         *)
(***************************************************************************)

\* The printable ASCII characters in code order: 32 (space) to 95 (_), and
\* 97 (a) to 126 (~).  Code 96 cannot be written in a string of the language.
PrintableLow ==
    " !\"#$%&'()*+,-./0123456789:;<=>?@ABCDEFGHIJKLMNOPQRSTUVWXYZ[\\]^_"

PrintableHigh == "abcdefghijklmnopqrstuvwxyz{|}~"

\* The code of every character a string of the model can hold.
Ord ==
    [c \in {SubSeq(PrintableLow, i, i) : i \in 1..Len(PrintableLow)}
          \cup {SubSeq(PrintableHigh, i, i) : i \in 1..Len(PrintableHigh)}
          \cup {"\t", "\n", "\f", "\r"} |->
        CASE c = "\t" -> 9
          [] c = "\n" -> 10
          [] c = "\f" -> 12
          [] c = "\r" -> 13
          [] \E i \in 1..Len(PrintableLow) : SubSeq(PrintableLow, i, i) = c ->
                31 + (CHOOSE i \in 1..Len(PrintableLow) : SubSeq(PrintableLow, i, i) = c)
          [] OTHER ->
                96 + (CHOOSE i \in 1..Len(PrintableHigh) : SubSeq(PrintableHigh, i, i) = c)]

\* []byte(s): the sequence of the bytes of s.
ToBytes(s) == [i \in 1..Len(s) |-> Ord[SubSeq(s, i, i)]]

(***************************************************************************)
(* crypto/sha256.Sum256 (FIPS 180-4).  A 32-bit word is a pair <<hi, lo>>  *)
(* of 16-bit halves, so that no intermediate value leaves the range of     *)
(* the model checker's integers; all arithmetic is modulo 2^32.            *)
(***************************************************************************)

RECURSIVE Xor16(_, _, _)
Xor16(a, b, n) ==
    IF n = 0 THEN 0
    ELSE (((a % 2) + (b % 2)) % 2) + 2 * Xor16(a \div 2, b \div 2, n - 1)

RECURSIVE And16(_, _, _)
And16(a, b, n) ==
    IF n = 0 THEN 0
    ELSE ((a % 2) * (b % 2)) + 2 * And16(a \div 2, b \div 2, n - 1)

WXor(x, y) == <<Xor16(x[1], y[1], 16), Xor16(x[2], y[2], 16)>>
WAnd(x, y) == <<And16(x[1], y[1], 16), And16(x[2], y[2], 16)>>
WNot(x) == <<65535 - x[1], 65535 - x[2]>>

\* x + y modulo 2^32.
WAdd(x, y) ==
    LET lo == x[2] + y[2]
        hi == x[1] + y[1] + (lo \div 65536)
    IN  <<hi % 65536, lo % 65536>>

\* bits.RotateLeft32(x, -n): rotate right by n, 0 < n < 32.
RotR(x, n) ==
    LET y == IF n >= 16 THEN <<x[2], x[1]>> ELSE x
        m == n % 16
    IN  IF m = 0 THEN y
        ELSE <<(y[1] \div (2^m)) + ((y[2] % (2^m)) * (2^(16 - m))),
               (y[2] \div (2^m)) + ((y[1] % (2^m)) * (2^(16 - m)))>>

\* x >> n, 0 < n < 16.
ShR(x, n) ==
    <<x[1] \div (2^n), (x[2] \div (2^n)) + ((x[1] % (2^n)) * (2^(16 - n)))>>

\* The round constants _K.
K256 ==
    << <<17034, 12184>>, <<28983, 17553>>, <<46528, 64463>>, <<59829, 56229>>,
       <<14678, 49755>>, <<23025, 4593>>, <<37439, 33444>>, <<43804, 24277>>,
       <<55303, 43672>>, <<4739, 23297>>, <<9265, 34238>>, <<21772, 32195>>,
       <<29374, 23924>>, <<32990, 45566>>, <<39900, 1703>>, <<49563, 61812>>,
       <<58523, 27073>>, <<61374, 18310>>, <<4033, 40390>>, <<9228, 41420>>,
       <<11753, 11375>>, <<19060, 33962>>, <<23728, 43484>>, <<30457, 35034>>,
       <<38974, 20818>>, <<43057, 50797>>, <<45059, 10184>>, <<48985, 32711>>,
       <<50912, 3059>>, <<54695, 37191>>, <<1738, 25425>>, <<5161, 10599>>,
       <<10167, 2693>>, <<11803, 8504>>, <<19756, 28156>>, <<21304, 3347>>,
       <<25866, 29524>>, <<30314, 2747>>, <<33218, 51502>>, <<37490, 11397>>,
       <<41663, 59553>>, <<43034, 26187>>, <<49739, 35696>>, <<51052, 20899>>,
       <<53650, 59417>>, <<54937, 1572>>, <<62478, 13701>>, <<4202, 41072>>,
       <<6564, 49430>>, <<7735, 27656>>, <<10056, 30540>>, <<13488, 48309>>,
       <<14620, 3251>>, <<20184, 43594>>, <<23452, 51791>>, <<26670, 28659>>,
       <<29839, 33518>>, <<30885, 25455>>, <<33992, 30740>>, <<36039, 520>>,
       <<37054, 65530>>, <<42064, 27883>>, <<48889, 41975>>, <<50801, 30962>> >>

\* The initial hash value.
InitH ==
    << <<27145, 58983>>, <<47975, 44677>>, <<15470, 62322>>, <<42319, 62778>>,
       <<20750, 21119>>, <<39685, 26764>>, <<8067, 55723>>, <<23520, 52505>> >>

\* The padded message: the bytes, 0x80, zeros up to 56 modulo 64, and the
\* length in bits as a 64-bit big-endian number.
Pad(bytes) ==
    LET n == Len(bytes)
        zeros == (119 - (n % 64)) % 64
        bits == n * 8
    IN  bytes \o <<128>> \o [i \in 1..zeros |-> 0]
        \o <<0, 0, 0, 0>>
        \o <<(bits \div 16777216) % 256, (bits \div 65536) % 256,
             (bits \div 256) % 256, bits % 256>>

\* The 16 big-endian words of block b (from 0) of the padded message p.
BlockWords(p, b) ==
    [t \in 1..16 |->
        LET o == 64 * b + 4 * (t - 1)
        IN  <<p[o + 1] * 256 + p[o + 2], p[o + 3] * 256 + p[o + 4]>>]

\* Word t of the message schedule, from the words before it.
ScheduleWord(w, t) ==
    WAdd(WAdd(WXor(WXor(RotR(w[t - 2], 17), RotR(w[t - 2], 19)), ShR(w[t - 2], 10)),
              w[t - 7]),
         WAdd(WXor(WXor(RotR(w[t - 15], 7), RotR(w[t - 15], 18)), ShR(w[t - 15], 3)),
              w[t - 16]))

\* The message schedule, extended from 16 words to 64.
RECURSIVE Schedule(_)
Schedule(w) ==
    IF Len(w) = 64 THEN w ELSE Schedule(Append(w, ScheduleWord(w, Len(w) + 1)))

\* t1 of a round on the working variables s = <<a, b, c, d, e, f, g, h>>,
\* with schedule word wt and constant kt:
\* h + (rotr(e,6) ^ rotr(e,11) ^ rotr(e,25)) + ((e & f) ^ (^e & g)) + kt + wt.
T1(s, wt, kt) ==
    WAdd(WAdd(WAdd(s[8], WXor(WXor(RotR(s[5], 6), RotR(s[5], 11)), RotR(s[5], 25))),
              WAdd(WXor(WAnd(s[5], s[6]), WAnd(WNot(s[5]), s[7])), kt)),
         wt)

\* t2 of a round:
\* (rotr(a,2) ^ rotr(a,13) ^ rotr(a,22)) + ((a & b) ^ (a & c) ^ (b & c)).
T2(s) ==
    WAdd(WXor(WXor(RotR(s[1], 2), RotR(s[1], 13)), RotR(s[1], 22)),
         WXor(WXor(WAnd(s[1], s[2]), WAnd(s[1], s[3])), WAnd(s[2], s[3])))

\* The working variables after a round with the given t1 and t2.
Rotate(s, t1, t2) ==
    <<WAdd(t1, t2), s[1], s[2], s[3], WAdd(s[4], t1), s[5], s[6], s[7]>>

\* One round of the compression function.
Round(s, wt, kt) == Rotate(s, T1(s, wt, kt), T2(s))

\* The 64 rounds of the compression function: ws holds the working
\* variables before round 1 and after each round done so far.
RECURSIVE Rounds(_, _)
Rounds(ws, w) ==
    IF Len(ws) > 64 THEN ws[Len(ws)]
    ELSE Rounds(Append(ws, Round(ws[Len(ws)], w[Len(ws)], K256[Len(ws)])), w)

\* Word by word, h + s.
AddWords(h, s) == [i \in 1..8 |-> WAdd(h[i], s[i])]

\* The hash value h after one more block: its 16 words compressed into h.
Block(h, words) == AddWords(h, Rounds(<<h>>, Schedule(words)))

\* The hash value after every block of the padded message p: hs holds the
\* initial hash value and the value after each block done so far.
RECURSIVE Blocks(_, _)
Blocks(hs, p) ==
    IF 64 * (Len(hs) - 1) >= Len(p) THEN hs[Len(hs)]
    ELSE Blocks(Append(hs, Block(hs[Len(hs)], BlockWords(p, Len(hs) - 1))), p)

\* The 32 bytes of the hash value h, every word big-endian.
Digest(h) ==
    [i \in 1..32 |->
        LET half == h[(i + 3) \div 4][IF ((i - 1) % 4) < 2 THEN 1 ELSE 2]
        IN  IF (i % 2) = 1 THEN half \div 256 ELSE half % 256]

\* sha256.Sum256(data): the 32 bytes of the digest.
Sum256(bytes) == Digest(Blocks(<<InitH>>, Pad(bytes)))

(***************************************************************************)
(* encoding/hex.EncodeToString.                                            *)
(***************************************************************************)

hextable == "0123456789abcdef"

\* An encoding with upper-case digits.
HexDigitUpper(n) == SubSeq("0123456789ABCDEF", n + 1, n + 1)

HexDigit(n) == SubSeq(hextable, n + 1, n + 1)

RECURSIVE EncodeToString(_)
EncodeToString(bytes) ==
    IF bytes = <<>> THEN ""
    ELSE HexDigit(Head(bytes) \div 16) \o HexDigit(Head(bytes) % 16)
         \o EncodeToString(Tail(bytes))

(***************************************************************************)
(* package strings.                                                        *)
(***************************************************************************)

\* s[i-1]: the i-th character of s.
At(s, i) == SubSeq(s, i, i)

\* s[i-1:]: s from its i-th character on.
From(s, i) == SubSeq(s, i, Len(s))

HasPrefix(s, p) == Len(s) >= Len(p) /\ SubSeq(s, 1, Len(p)) = p

HasSuffix(s, p) == Len(s) >= Len(p) /\ SubSeq(s, Len(s) - Len(p) + 1, Len(s)) = p

TrimPrefix(s, p) == IF HasPrefix(s, p) THEN From(s, Len(p) + 1) ELSE s

\* Whether the character c occurs in s.
Contains(s, c) == \E i \in 1..Len(s) : At(s, i) = c

\* The position of the first c in s, counted from 1; 0 when there is none.
Index(s, c) ==
    IF Contains(s, c)
    THEN CHOOSE i \in 1..Len(s) :
            At(s, i) = c /\ \A j \in 1..(i - 1) : At(s, j) # c
    ELSE 0

\* The position of the last c in s, counted from 1; 0 when there is none.
LastIndex(s, c) ==
    IF Contains(s, c)
    THEN CHOOSE i \in 1..Len(s) :
            At(s, i) = c /\ \A j \in (i + 1)..Len(s) : At(s, j) # c
    ELSE 0

\* strings.Cut(s, c): what is before the first c (all of s without one).
Before(s, c) == IF Contains(s, c) THEN SubSeq(s, 1, Index(s, c) - 1) ELSE s

\* strings.Cut(s, c): what is after the first c (nothing without one).
After(s, c) == IF Contains(s, c) THEN From(s, Index(s, c) + 1) ELSE ""

\* The white space strings.TrimSpace cuts, among the characters of Ord.
\* (\v, U+0085 and U+00A0 and the other Unicode spaces are no characters
\* of the model.)
asciiSpace == {"\t", "\n", "\f", "\r", " "}

\* s from the first to the last of the positions in keep.
Span(s, keep) ==
    IF keep = {} THEN ""
    ELSE SubSeq(s, CHOOSE i \in keep : \A j \in keep : i <= j,
                   CHOOSE i \in keep : \A j \in keep : j <= i)

\* A body taken as it is, not trimmed.
TrimNothing(s) == s

\* strings.TrimSpace(s): s without its leading and trailing white space.
TrimSpace(s) == Span(s, {i \in 1..Len(s) : At(s, i) \notin asciiSpace})

(***************************************************************************)
(* path.Clean and net/http.cleanPath.                                      *)
(***************************************************************************)

\* The elements of p between slashes, from position i on; cur is the
\* element being read.  Empty elements are dropped.
RECURSIVE Elements(_, _, _)
Elements(p, i, cur) ==
    IF i > Len(p) THEN (IF cur = "" THEN <<>> ELSE <<cur>>)
    ELSE IF At(p, i) = "/"
         THEN (IF cur = "" THEN <<>> ELSE <<cur>>) \o Elements(p, i + 1, "")
         ELSE Elements(p, i + 1, cur \o At(p, i))

\* The elements kept by path.Clean: out is the cleaned path so far.  A "."
\* is dropped; a ".." takes back the element before it, is dropped at the
\* root, and is kept at the start of a path that is not rooted.
RECURSIVE CleanElements(_, _, _)
CleanElements(elems, out, rooted) ==
    IF elems = <<>> THEN out
    ELSE LET e == Head(elems)
             rest == Tail(elems)
         IN  IF e = "." THEN CleanElements(rest, out, rooted)
             ELSE IF e = ".."
                  THEN IF out # <<>> /\ out[Len(out)] # ".."
                       THEN CleanElements(rest, SubSeq(out, 1, Len(out) - 1), rooted)
                       ELSE IF rooted THEN CleanElements(rest, out, rooted)
                            ELSE CleanElements(rest, Append(out, e), rooted)
                  ELSE CleanElements(rest, Append(out, e), rooted)

RECURSIVE Join(_)
Join(elems) ==
    IF elems = <<>> THEN ""
    ELSE IF Len(elems) = 1 THEN elems[1]
         ELSE elems[1] \o "/" \o Join(Tail(elems))

\* The cleaned path with the elements out joined.
Rooted(rooted, out) ==
    IF rooted THEN "/" \o out
    ELSE IF out = "" THEN "." ELSE out

\* path.Clean(p): the shortest path name equivalent to p.
Clean(p) ==
    Rooted(HasPrefix(p, "/"),
           Join(CleanElements(Elements(p, 1, ""), <<>>, HasPrefix(p, "/"))))

\* np, the cleaned q, with the trailing slash of q.
KeepSlash(q, np) == IF HasSuffix(q, "/") /\ np # "/" THEN np \o "/" ELSE np

\* net/http.cleanPath(p): the canonical path for p, a trailing slash kept.
cleanPath(p) ==
    IF p = "" THEN "/"
    ELSE IF At(p, 1) # "/" THEN KeepSlash("/" \o p, Clean("/" \o p))
    ELSE KeepSlash(p, Clean(p))

(***************************************************************************)
(* net/url.Parse, as far as http.Redirect reads its result: whether the    *)
(* URL parses, its scheme and its host.  An authority with an IP literal   *)
(* ("[") is outside the model; a host is returned as written, its          *)
(* %-escapes checked but not decoded.                                      *)
(***************************************************************************)

lowerLetters == "abcdefghijklmnopqrstuvwxyz"
upperLetters == "ABCDEFGHIJKLMNOPQRSTUVWXYZ"
decimalDigits == "0123456789"

\* The set of the characters of s.
Chars(s) == {At(s, i) : i \in 1..Len(s)}

IsLetter(c) == c \in Chars(lowerLetters) \cup Chars(upperLetters)
IsDigit(c) == c \in Chars(decimalDigits)
ishex(c) == IsDigit(c) \/ c \in Chars("abcdefABCDEF")

RECURSIVE ToLower(_)
ToLower(s) ==
    IF s = "" THEN ""
    ELSE LET c == At(s, 1)
         IN  (IF c \in Chars(upperLetters)
              THEN At(lowerLetters, Index(upperLetters, c)) ELSE c)
             \o ToLower(From(s, 2))

\* stringContainsCTLByte(s): a byte below 0x20, or 0x7f.
stringContainsCTLByte(s) == \E i \in 1..Len(s) : Ord[At(s, i)] < 32

\* The least position in S; 0 when there is none.
First(S) == IF S = {} THEN 0 ELSE CHOOSE i \in S : \A j \in S : i <= j

\* The positions of raw that hold no character of a scheme: a letter, or
\* after the first character a digit, "+", "-" or ".".
SchemeEnd(raw) ==
    {i \in 1..Len(raw) :
        ~(\/ IsLetter(At(raw, i))
          \/ i > 1 /\ (IsDigit(At(raw, i)) \/ At(raw, i) \in {"+", "-", "."}))}

\* The result of getScheme when k is the first such position.
SchemeUpTo(raw, k) ==
    IF k = 0 \/ At(raw, k) # ":"
    THEN [scheme |-> "", rest |-> raw, err |-> FALSE]
    ELSE IF k = 1 THEN [scheme |-> "", rest |-> "", err |-> TRUE]
         ELSE [scheme |-> SubSeq(raw, 1, k - 1), rest |-> From(raw, k + 1),
               err |-> FALSE]

\* getScheme(rawURL): the scheme, what follows it, and whether the URL
\* starts with a colon (an error).
getScheme(raw) == SchemeUpTo(raw, First(SchemeEnd(raw)))

\* unescape's first pass: a "%" that two hexadecimal digits do not follow.
BadEscape(s) ==
    \E i \in 1..Len(s) :
        /\ At(s, i) = "%"
        /\ ~(i + 2 <= Len(s) /\ ishex(At(s, i + 1)) /\ ishex(At(s, i + 2)))

\* unescape(host, encodeHost) fails: a bad escape, an escaped ASCII byte
\* other than %25, or a character a host cannot hold.
BadHost(host) ==
    \/ BadEscape(host)
    \/ \E i \in 1..Len(host) :
        /\ At(host, i) = "%"
        /\ At(host, i + 1) \in Chars("01234567")
        /\ SubSeq(host, i, i + 2) # "%25"
    \/ \E i \in 1..Len(host) :
        LET c == At(host, i)
        IN  ~(\/ IsLetter(c) \/ IsDigit(c) \/ c = "%"
              \/ c \in Chars("!$&'()*+,;=:[]<>\"")
              \/ c \in Chars("-_.~"))

\* validOptionalPort(port): empty, or a colon and digits.
validOptionalPort(port) ==
    \/ port = ""
    \/ At(port, 1) = ":" /\ \A i \in 2..Len(port) : IsDigit(At(port, i))

\* parseHost(host) fails (no IP literal).
BadHostPort(host) ==
    \/ Contains(host, ":") /\ ~validOptionalPort(From(host, LastIndex(host, ":")))
    \/ BadHost(host)

\* validUserinfo(s).
validUserinfo(s) ==
    \A i \in 1..Len(s) :
        \/ IsLetter(At(s, i)) \/ IsDigit(At(s, i))
        \/ At(s, i) \in Chars("-._:~!$&'()*+,;=%@")

\* The result of parseAuthority for the host and the user information.
Authority(host, hasUserinfo, userinfo) ==
    [host |-> host,
     err |-> \/ BadHostPort(host)
             \/ hasUserinfo /\ (~validUserinfo(userinfo) \/ BadEscape(userinfo))]

\* The authority cut at its last "@", at position i (0: none).
AuthorityAt(authority, i) ==
    Authority(From(authority, i + 1), i > 0, SubSeq(authority, 1, i - 1))

\* parseAuthority(authority): the host, and whether parsing failed.
parseAuthority(authority) == AuthorityAt(authority, LastIndex(authority, "@"))

\* The result of a parse that failed.
ParseError == [err |-> TRUE, Scheme |-> "", Host |-> ""]

\* The end of parse: the authority a when there is one, and the path.
ParsePath(scheme, hasAuthority, a, pathPart) ==
    IF hasAuthority /\ a.err THEN ParseError
    ELSE IF BadEscape(pathPart) THEN ParseError
    ELSE [err |-> FALSE, Scheme |-> ToLower(scheme),
          Host |-> IF hasAuthority THEN a.host ELSE ""]

\* parse from the authority on: rest is what follows the scheme, without
\* the query, and afterSlashes is rest without its first two characters.
ParseAuthority(scheme, rest, hasAuthority, afterSlashes) ==
    ParsePath(scheme, hasAuthority, parseAuthority(Before(afterSlashes, "/")),
              IF ~hasAuthority THEN rest
              ELSE IF Contains(afterSlashes, "/")
                   THEN From(afterSlashes, Index(afterSlashes, "/")) ELSE "")

\* parse after getScheme returned s.
ParseRest(raw, s, rest) ==
    IF stringContainsCTLByte(raw) \/ s.err THEN ParseError
    ELSE IF raw = "*" THEN [err |-> FALSE, Scheme |-> "", Host |-> ""]
    ELSE IF ~HasPrefix(rest, "/") /\ s.scheme # ""
         THEN [err |-> FALSE, Scheme |-> ToLower(s.scheme), Host |-> ""]
    ELSE IF ~HasPrefix(rest, "/") /\ Contains(Before(rest, "/"), ":") THEN ParseError
    ELSE ParseAuthority(s.scheme, rest,
                        (s.scheme # "" \/ ~HasPrefix(rest, "///")) /\ HasPrefix(rest, "//"),
                        From(rest, 3))

ParseScheme(raw, s) == ParseRest(raw, s, Before(s.rest, "?"))

\* parse(rawURL, viaRequest = false), rawURL without its fragment.
parse(raw) == ParseScheme(raw, getScheme(raw))

\* The result u of parse with the fragment checked.
ParseFragment(u, frag) == IF ~u.err /\ BadEscape(frag) THEN ParseError ELSE u

\* url.Parse(rawURL).
Parse(raw) == ParseFragment(parse(Before(raw, "#")), After(raw, "#"))

(***************************************************************************)
(* net/http: Redirect, Error, NotFound.  A response is a record of the     *)
(* status code, the Location header ("" when not set) and the body.        *)
(***************************************************************************)

StatusOK == 200
StatusMovedPermanently == 301
StatusBadRequest == 400
StatusNotFound == 404
StatusMethodNotAllowed == 405

\* http.Error(w, error, code): the message and a line break.
Error(msg, code) == [status |-> code, location |-> "", body |-> msg \o "\n"]

\* http.NotFound(w, r).
NotFound == Error("404 page not found", StatusNotFound)

\* path.Split(p): the directory of p, up to its last slash.
Dir(p) == SubSeq(p, 1, LastIndex(p, "/"))

\* The path pth cleaned, a trailing slash kept, and the query after it.
CleanedURL(pth, cleaned, query) ==
    (IF HasSuffix(pth, "/") /\ ~HasSuffix(cleaned, "/")
     THEN cleaned \o "/" ELSE cleaned) \o query

\* The rooted URL abs with its path cleaned.
CleanURL(abs) ==
    CleanedURL(Before(abs, "?"), Clean(Before(abs, "?")),
               IF Contains(abs, "?") THEN From(abs, Index(abs, "?")) ELSE "")

\* The URL http.Redirect sends when url.Parse(url) returned u.
RedirectParsed(u, oldpath, url) ==
    IF ~u.err /\ u.Scheme = "" /\ u.Host = ""
    THEN CleanURL(IF url = "" \/ At(url, 1) # "/"
                  THEN Dir(IF oldpath = "" THEN "/" ELSE oldpath) \o url
                  ELSE url)
    ELSE url

\* The URL http.Redirect sends for url, asked for at request path oldpath:
\* a URL without scheme and host is made a rooted, cleaned path.
\* (hexEscapeNonASCII changes no character of the model.)
RedirectURL(oldpath, url) == RedirectParsed(Parse(url), oldpath, url)

\* htmlEscape(s).
RECURSIVE htmlEscape(_)
htmlEscape(s) ==
    IF s = "" THEN ""
    ELSE LET c == At(s, 1)
         IN  (CASE c = "&" -> "&amp;"
                [] c = "<" -> "&lt;"
                [] c = ">" -> "&gt;"
                [] c = "\"" -> "&#34;"
                [] c = "'" -> "&#39;"
                [] OTHER -> c)
             \o htmlEscape(From(s, 2))

(***************************************************************************)
(* The inputs of the model.                                                *)
(***************************************************************************)

\* The URLs handed to Shorten and GetShortURL by their callers.  The two
\* a.test URLs have SHA-256 digests with the same first 8 hex characters.
URLs == {"https://a.test/28381", "https://a.test/61119", "docs/a.txt", ""}

\* The request bodies.
Bodies == {"", " \t\r\n", " https://foo.test/x\n", "docs/a.txt"}

\* strings.TrimSpace(string(body)) for every body, computed once.
Trimmed == [b \in Bodies |-> TrimSpace(b)]

\* Every string Shorten is called with.
Inputs == URLs \cup {Trimmed[b] : b \in Bodies}

\* The hosts a shortener is constructed with.
Hosts == {"http://h:3000", "http://example.com:3000/"}

\* The request methods.
Methods == {"GET", "POST", "DELETE", "CONNECT"}

\* hex.EncodeToString(hash[:]) for every input, computed once.
HexDigest == [u \in Inputs |-> EncodeToString(Sum256(ToBytes(u)))]

\* The request paths: the root, the paths of the identifiers of
\* "https://a.test/28381" (and "https://a.test/61119"), "docs/a.txt" and
\* "https://foo.test/x", two paths of no identifier, and two paths that are
\* not in canonical form.  A path holds only characters that a URL path
\* holds unescaped, so that r.URL.Path is r.URL.EscapedPath().
Paths ==
    {"/", "/9aca8ac7", "/6b7bef38", "/b0ed97b1", "/doesnotexist12",
     "/extra-path", "//", "/a/../9aca8ac7"}

\* cleanPath(r.URL.Path) for every path, computed once.
CleanPaths == [p \in Paths |-> cleanPath(p)]

\* What http.Redirect sends for every request path and every URL it is
\* called with there (a stored URL, the canonical path), computed once.
RedirectURLs ==
    [p \in Paths |-> [u \in Inputs \cup {cleanPath(p)} |-> RedirectURL(p, u)]]

(***************************************************************************)
(* http.Redirect.                                                          *)
(***************************************************************************)

\* The response of http.Redirect with the Location header loc, no
\* Content-Type set before: the body is written for GET only (and HEAD).
redirectTo(method, loc, code) ==
    [status |-> code,
     location |-> loc,
     body |-> IF method = "GET"
              THEN "<a href=\"" \o htmlEscape(loc) \o "\">Moved Permanently</a>.\n\n"
              ELSE ""]

\* A redirect that sends url as it is.
RedirectVerbatim(method, oldpath, url, code) == redirectTo(method, url, code)

\* http.Redirect(w, r, url, code) for a request of the given method and
\* path.
Redirect(method, oldpath, url, code) ==
    redirectTo(method,
               IF oldpath \in DOMAIN RedirectURLs /\ url \in DOMAIN RedirectURLs[oldpath]
               THEN RedirectURLs[oldpath][url]
               ELSE RedirectURL(oldpath, url),
               code)

(***************************************************************************)
(* URLShortener.  The struct is a record of its fields; a method is an     *)
(* operator from the struct (and the arguments) to the struct after the    *)
(* call and the result.  Shorten holds us.mu from its first statement to   *)
(* its return, and the lookup of Serve holds it for the map read: each is  *)
(* one step.                                                               *)
(***************************************************************************)

\* A write that keeps no other entry.
MapOnly(m, k, v) == (k :> v)

\* The map m with m[k] = v.
MapSet(m, k, v) == (k :> v) @@ m

\* NewURLShortener(host).
NewURLShortener(h) == [urlMap |-> <<>>, idLength |-> 8, host |-> h]

\* An identifier that counts the entries instead of hashing the URL.
SequentialID(s, url) ==
    SubSeq("0000000" \o HexDigit(Cardinality(DOMAIN s.urlMap) % 16), 1, s.idLength)

\* An identifier that avoids the identifiers in use: the next characters of
\* the digest when the first are taken.
UnusedID(s, url) ==
    IF SubSeq(HexDigest[url], 1, s.idLength) \in DOMAIN s.urlMap
    THEN SubSeq(HexDigest[url], s.idLength + 1, 2 * s.idLength)
    ELSE SubSeq(HexDigest[url], 1, s.idLength)

\* hex.EncodeToString(hash[:])[:us.idLength], hash the SHA-256 of url.
ShortID(s, url) ==
    SubSeq(IF url \in Inputs THEN HexDigest[url]
           ELSE EncodeToString(Sum256(ToBytes(url))),
           1, s.idLength)

\* us.urlMap[shortID] = url; return shortID.
store(s, shortID, url) ==
    [us |-> [s EXCEPT !.urlMap = MapSet(@, shortID, url)], ret |-> shortID]

\* us.Shorten(url).
Shorten(s, url) == store(s, ShortID(s, url), url)

\* A short URL that drops the slash at the end of the host.
shortURLTrimmed(s, out) ==
    [us |-> out.us,
     ret |-> (IF HasSuffix(s.host, "/") THEN SubSeq(s.host, 1, Len(s.host) - 1)
              ELSE s.host) \o "/" \o out.ret]

\* fmt.Sprintf("%s/%s", us.host, shortID), after the call of Shorten that
\* returned out.
shortURL(s, out) == [us |-> out.us, ret |-> s.host \o "/" \o out.ret]

\* A GetShortURL that computes the short URL and stores nothing.
GetShortURLUnsaved(s, url) == [us |-> s, ret |-> s.host \o "/" \o ShortID(s, url)]

\* us.GetShortURL(url).
GetShortURL(s, url) == shortURL(s, Shorten(s, url))

\* The usage text of the root path.
Banner ==
    "URL Shortener Service\nUsage:\n"
    \o "  GET  /<short-id> - Redirect to original URL\n"
    \o "  POST /           - Create short URL (send URL in body)\n"

\* A request: its method, r.URL.Path, the body, and whether reading the
\* body fails.  A request other than POST carries no body; a body that
\* cannot be read is shown as the empty body.
Requests ==
    {r \in [method : Methods, path : Paths, body : Bodies, readErr : BOOLEAN] :
        /\ r.method # "POST" => r.body = "" /\ ~r.readErr
        /\ r.readErr => r.body = ""}

\* The answer to a POST that GetShortURL returned out for: 200, text/plain,
\* the short URL.
created(out) ==
    [us |-> out.us,
     resp |-> [status |-> StatusOK, location |-> "", body |-> out.ret]]

\* originalURL, exists := us.urlMap[id]: the value ("" when there is none)
\* and whether there is one.
Lookup(s, id) ==
    [value |-> IF id \in DOMAIN s.urlMap THEN s.urlMap[id] ELSE "",
     found |-> id \in DOMAIN s.urlMap]

\* An answer that empties the mapping set.
answerCleared(s, resp) == [us |-> [s EXCEPT !.urlMap = <<>>], resp |-> resp]

\* An answer that leaves the shortener as it is.
answer(s, resp) == [us |-> s, resp |-> resp]

\* A handler that looks the identifier up before it tests for the root
\* path.
handleLookupFirst(s, r, id) ==
    IF r.method = "POST"
    THEN IF id # "" \/ r.readErr \/ TrimSpace(r.body) = ""
         THEN answer(s, Error("Bad request", StatusBadRequest))
         ELSE created(GetShortURL(s, TrimSpace(r.body)))
    ELSE IF r.method # "GET"
    THEN answer(s, Error("Method not allowed", StatusMethodNotAllowed))
    ELSE IF ~Lookup(s, id).found
    THEN answer(s, NotFound)
    ELSE answer(s, Redirect(r.method, r.path, Lookup(s, id).value,
                            StatusMovedPermanently))

\* The handler Serve registers for "/", for a request with
\* id = strings.TrimPrefix(r.URL.Path, "/").
handle(s, r, id) ==
    IF r.method = "POST"
    THEN IF id # ""
         THEN answer(s, Error("POST only allowed at root path", StatusBadRequest))
         ELSE IF r.readErr
         THEN answer(s, Error("Failed to read request body", StatusBadRequest))
         ELSE IF TrimSpace(r.body) = ""
         THEN answer(s, Error("URL cannot be empty", StatusBadRequest))
         ELSE created(GetShortURL(s, TrimSpace(r.body)))
    ELSE IF r.method # "GET"
    THEN answer(s, Error("Method not allowed", StatusMethodNotAllowed))
    ELSE IF id = ""
    THEN answer(s, [status |-> StatusOK, location |-> "", body |-> Banner])
    ELSE IF ~Lookup(s, id).found
    THEN answer(s, NotFound)
    ELSE answer(s, Redirect(r.method, r.path, Lookup(s, id).value,
                            StatusMovedPermanently))

\* A handler that treats every method other than POST as GET.
HandlerAsGet(s, r) ==
    handle(s, [r EXCEPT !.method = IF @ = "POST" THEN @ ELSE "GET"],
           TrimPrefix(r.path, "/"))

Handler(s, r) == handle(s, r, TrimPrefix(r.path, "/"))

\* A mux that hands every request to the handler, its path as it is.
serveUncleaned(s, r, clean) == Handler(s, r)

\* http.DefaultServeMux with the one pattern "/", for a request whose
\* canonical path is clean: a request whose path is not canonical is
\* redirected to the canonical path, except for CONNECT; every other
\* request goes to the handler.
serve(s, r, clean) ==
    IF r.method # "CONNECT" /\ clean # r.path
    THEN answer(s, Redirect(r.method, r.path, clean, StatusMovedPermanently))
    ELSE Handler(s, r)

ServeHTTP(s, r) ==
    serve(s, r, IF r.path \in DOMAIN CleanPaths THEN CleanPaths[r.path]
                ELSE cleanPath(r.path))

(***************************************************************************)
(* The state machine.                                                      *)
(***************************************************************************)

VARIABLES
    us,      \* the URLShortener of the running process
    last,    \* the last operation: what was called, with what, and its result
    issued,  \* history: for each URL shortened in this process or one before
             \* it, the identifier returned for it the first time, and the host
             \* of the shortener that returned it
    st,      \* the URLStorage handle of the process: none yet, an
             \* InMemoryStorage, a RedisStorage, or the nil *RedisStorage
    redis,   \* the Redis server the RedisStorage talks to
    sres,    \* the last storage operation: what was called and its result
    hist,    \* history: for each identifier written to the storage, the URL
             \* of the last write, its TTL and the time since
    task,    \* the goroutines: the operation each one runs and where it is
    mu,      \* the locks: mu.us is us.mu, the sync.RWMutex of the
             \* URLShortener, and mu.st is s.mu, that of the InMemoryStorage
    irc,     \* the call of sendToIRC: the message, what is left of it, and
             \* the texts of the PRIVMSGs sent so far
    sess     \* the IRC agent: the last PRIVMSG event, the sessions of the
             \* session service, and the goroutines that run processMessage

\* The shortener of the process, the storage, and the goroutines.
shortener == <<us, last, issued>>
storage == <<st, redis, sres, hist>>
goroutines == <<task, mu>>
agent == <<irc, sess>>

vars == <<us, last, issued, st, redis, sres, hist, task, mu, irc, sess>>

NoRequest == [method |-> "", path |-> "", body |-> "", readErr |-> FALSE]
NoResponse == [status |-> 0, location |-> "", body |-> ""]

\* The history h after the shortener s returned the identifier id for url.
Issue(h, s, url, id) ==
    IF url \in DOMAIN h THEN h ELSE MapSet(h, url, [id |-> id, host |-> s.host])

\* The identifier at the end of the short URL that s returned.
IDOf(s, short) == From(short, Len(s.host) + 2)

(***************************************************************************)
(* The storage backends: InMemoryStorage and RedisStorage.                 *)
(***************************************************************************)

\* The nil error, redis.Nil, and the error of a command that does not
\* reach the server or gets no answer in time.
NoError == ""
RedisNil == "redis: nil"
ConnError == "dial tcp: connect: connection refused"

\* The error of a command or a Close on a client that has been closed.
ErrClosed == "redis: client is closed"

\* The identifiers and the URLs the storage is called with.
StoreIDs == {"abcd1234", "nonexistent"}
StoreURLs == {"https://example.com/test", ""}

\* The longest TTL of a RedisStorageConfig, in ticks of the server's clock,
\* and the TTLs: 0 is no expiration.
MaxTTL == 2
TTLs == 0..MaxTTL

\* No handle yet; the nil *RedisStorage a failed NewRedisStorage returns.
NoStorage == [kind |-> "none"]
NilRedisStorage == [kind |-> "nil"]

\* NewInMemoryStorage().
NewInMemoryStorage == [kind |-> "memory", urlMap |-> <<>>]

\* A Set that keeps the first value of a key.
InMemoryStorageSetOnce(s, shortID, url) ==
    [st |-> [s EXCEPT !.urlMap = @ @@ (shortID :> url)], err |-> NoError]

\* InMemoryStorage.Set(ctx, shortID, url).
InMemoryStorageSet(s, shortID, url) ==
    [st |-> [s EXCEPT !.urlMap = MapSet(@, shortID, url)], err |-> NoError]

\* A Get that reports every identifier as found.
InMemoryStorageGetFound(s, shortID) ==
    [url |-> IF shortID \in DOMAIN s.urlMap THEN s.urlMap[shortID] ELSE "",
     found |-> TRUE, err |-> NoError]

\* InMemoryStorage.Get(ctx, shortID): url, exists := s.urlMap[shortID].
InMemoryStorageGet(s, shortID) ==
    [url |-> IF shortID \in DOMAIN s.urlMap THEN s.urlMap[shortID] ELSE "",
     found |-> shortID \in DOMAIN s.urlMap, err |-> NoError]

\* fmt.Sprintf("url:%s", shortID).
Key(shortID) == "url:" \o shortID

\* The Redis server at the start: reachable or not, no key.  Each key holds
\* its value and exp, the ticks left until it expires (0: it never does).
RedisServers == [up : BOOLEAN, data : {<<>>}]

\* client.Ping(ctx).Err().
Ping(r) == IF r.up THEN NoError ELSE ConnError

\* client.Set(ctx, key, value, expiration).Err(): SET key value, with
\* EX/PX expiration when expiration is positive; the key then holds the
\* value with that time to live, whatever it held before.
ClientSet(r, key, value, expiration) ==
    IF ~r.up
    THEN [redis |-> r, err |-> ConnError]
    ELSE [redis |-> [r EXCEPT !.data = MapSet(@, key, [val |-> value,
                                                       exp |-> expiration])],
          err |-> NoError]

\* client.Get(ctx, key).Result().
ClientGet(r, key) ==
    IF ~r.up THEN [val |-> "", err |-> ConnError]
    ELSE IF key \notin DOMAIN r.data THEN [val |-> "", err |-> RedisNil]
    ELSE [val |-> r.data[key].val, err |-> NoError]

\* The server one tick later: a key with one tick left is gone.
Expire(r) ==
    [r EXCEPT !.data =
        [k \in {j \in DOMAIN r.data : r.data[j].exp # 1} |->
            [r.data[k] EXCEPT !.exp = IF @ = 0 THEN 0 ELSE @ - 1]]]

\* A constructor that returns a handle without the probe.
NewRedisStorageUnprobed(r, ttl) ==
    [st |-> [kind |-> "redis", ttl |-> ttl, closed |-> FALSE],
     err |-> NoError, sent |-> <<>>]

\* NewRedisStorage(ctx, config), config.TTL = ttl: the handle, the error,
\* and the commands sent to the server.
NewRedisStorage(r, ttl) ==
    IF Ping(r) # NoError
    THEN [st |-> NilRedisStorage,
          err |-> "failed to connect to Redis: " \o Ping(r),
          sent |-> <<"PING">>]
    ELSE [st |-> [kind |-> "redis", ttl |-> ttl, closed |-> FALSE],
          err |-> NoError, sent |-> <<"PING">>]

\* A Set that writes the key without a time to live.
RedisStorageSetForever(s, r, shortID, url) == ClientSet(r, Key(shortID), url, 0)

\* RedisStorage.Set(ctx, shortID, url).
RedisStorageSet(s, r, shortID, url) == ClientSet(r, Key(shortID), url, s.ttl)

\* The result of Get for what client.Get returned.
getResult(got) ==
    IF got.err = RedisNil THEN [url |-> "", found |-> FALSE, err |-> NoError]
    ELSE IF got.err # NoError THEN [url |-> "", found |-> FALSE, err |-> got.err]
    ELSE [url |-> got.val, found |-> TRUE, err |-> NoError]

\* A Get that reports every failure as a missing key.
RedisStorageGetQuiet(s, r, shortID) ==
    [getResult(ClientGet(r, Key(shortID))) EXCEPT !.err = NoError]

\* RedisStorage.Get(ctx, shortID).
RedisStorageGet(s, r, shortID) == getResult(ClientGet(r, Key(shortID)))

\* InMemoryStorage.Close(): return nil.
InMemoryStorageClose(s) == [st |-> s, err |-> NoError]

\* client.Close(): the connection pool is closed once; on a client already
\* closed it returns ErrClosed.
ClientClose(s) ==
    [st |-> [s EXCEPT !.closed = TRUE],
     err |-> IF s.closed THEN ErrClosed ELSE NoError]

\* RedisStorage.Close(): return s.client.Close().
RedisStorageClose(s) == ClientClose(s)

\* What a storage operation leaves in sres: the operation, its arguments,
\* what it returned, the commands it sent to the Redis server, whether it
\* ended in a panic (a call on the nil *RedisStorage), the deadline of the
\* context it was called with (0: none) and the time it took.
NoResult ==
    [op |-> "none", id |-> "", arg |-> "", url |-> "", found |-> FALSE,
     err |-> NoError, sent |-> <<>>, panic |-> FALSE, deadline |-> 0,
     took |-> 0]

\* URLStorage.Set(ctx, shortID, url) on the handle s, the server being r:
\* the storage and the server after it, and the result.
Set(s, r, shortID, url) ==
    IF s.kind = "memory"
    THEN [st |-> InMemoryStorageSet(s, shortID, url).st, redis |-> r,
          res |-> [NoResult EXCEPT !.op = "Set", !.id = shortID, !.arg = url,
                      !.err = InMemoryStorageSet(s, shortID, url).err]]
    ELSE IF s.kind = "redis"
    THEN [st |-> s, redis |-> RedisStorageSet(s, r, shortID, url).redis,
          res |-> [NoResult EXCEPT !.op = "Set", !.id = shortID, !.arg = url,
                      !.err = RedisStorageSet(s, r, shortID, url).err,
                      !.sent = <<"SET">>]]
    ELSE [st |-> s, redis |-> r,
          res |-> [NoResult EXCEPT !.op = "Set", !.id = shortID, !.arg = url,
                      !.panic = TRUE]]

\* What Get leaves in sres for the result got.
gotResult(shortID, got, sent) ==
    [NoResult EXCEPT !.op = "Get", !.id = shortID, !.url = got.url,
        !.found = got.found, !.err = got.err, !.sent = sent]

\* URLStorage.Get(ctx, shortID) on the handle s, the server being r.
Get(s, r, shortID) ==
    IF s.kind = "memory" THEN gotResult(shortID, InMemoryStorageGet(s, shortID), <<>>)
    ELSE IF s.kind = "redis"
    THEN gotResult(shortID, RedisStorageGet(s, r, shortID), <<"GET">>)
    ELSE [NoResult EXCEPT !.op = "Get", !.id = shortID, !.panic = TRUE]

\* The handle s has not been closed.
Open(s) == s.kind = "redis" => ~s.closed

\* The options NewRedisStorage gives redis.NewClient are Addr, Password and
\* DB; the others keep their defaults: ContextTimeoutEnabled is false, the
\* client then bounds the reading and writing of a command by ReadTimeout
\* and WriteTimeout, not by the deadline of the context.  The times of a
\* command are counted in round trips, far shorter than a tick of the
\* server's clock of expirations.
ContextTimeoutEnabled == FALSE
ReadTimeout == 3

\* The deadlines of the contexts, and the times the server takes to answer.
MaxDeadline == 2
MaxDelay == 2
Deadlines == 1..MaxDeadline
Delays == 1..MaxDelay

\* The errors of a command cut short: by the context, by ReadTimeout.
DeadlineExceeded == "context deadline exceeded"
IOTimeout == "i/o timeout"

\* The time the client waits for the answer to a command, at most.
Cutoff(deadline) ==
    IF ContextTimeoutEnabled /\ deadline < ReadTimeout THEN deadline
    ELSE ReadTimeout

\* The error of a command cut short, when the server answers after delay.
CutShort(deadline, delay) ==
    IF delay <= Cutoff(deadline) THEN NoError
    ELSE IF ContextTimeoutEnabled /\ deadline < ReadTimeout THEN DeadlineExceeded
    ELSE IOTimeout

\* The time the command takes.
Took(deadline, delay) ==
    IF delay <= Cutoff(deadline) THEN delay ELSE Cutoff(deadline)

\* RedisStorage.Set(ctx, shortID, url), ctx with the deadline, the server
\* answering after delay: the command cut short writes nothing.
SetWithin(s, r, shortID, url, deadline, delay) ==
    IF CutShort(deadline, delay) = NoError
    THEN [Set(s, r, shortID, url) EXCEPT
             !.res = [@ EXCEPT !.deadline = deadline,
                               !.took = Took(deadline, delay)]]
    ELSE [st |-> s, redis |-> r,
          res |-> [NoResult EXCEPT !.op = "Set", !.id = shortID, !.arg = url,
                      !.err = CutShort(deadline, delay), !.sent = <<"SET">>,
                      !.deadline = deadline, !.took = Took(deadline, delay)]]

\* RedisStorage.Get(ctx, shortID), ctx with the deadline, the server
\* answering after delay.
GetWithin(s, r, shortID, deadline, delay) ==
    IF CutShort(deadline, delay) = NoError
    THEN [Get(s, r, shortID) EXCEPT !.deadline = deadline,
                                    !.took = Took(deadline, delay)]
    ELSE [NoResult EXCEPT !.op = "Get", !.id = shortID,
             !.err = CutShort(deadline, delay), !.sent = <<"GET">>,
             !.deadline = deadline, !.took = Took(deadline, delay)]

\* URLStorage.Close() on the handle s.
Close(s) ==
    IF s.kind = "memory"
    THEN [st |-> InMemoryStorageClose(s).st,
          res |-> [NoResult EXCEPT !.op = "Close",
                      !.err = InMemoryStorageClose(s).err]]
    ELSE IF s.kind = "redis"
    THEN [st |-> RedisStorageClose(s).st,
          res |-> [NoResult EXCEPT !.op = "Close",
                      !.err = RedisStorageClose(s).err]]
    ELSE [st |-> s, res |-> [NoResult EXCEPT !.op = "Close", !.panic = TRUE]]

\* How often a write is counted in the history, at most.
MaxWrites == 2

\* The history h after a Set of url for shortID that returned no error,
\* with the time to live ttl.
Written(h, shortID, url, ttl) ==
    MapSet(h, shortID,
           [url |-> url, ttl |-> ttl, age |-> 0,
            n |-> IF shortID \in DOMAIN h /\ h[shortID].n < MaxWrites
                  THEN h[shortID].n + 1
                  ELSE IF shortID \in DOMAIN h THEN MaxWrites ELSE 1])

\* The history one tick later; an age is counted up to MaxTTL.
Aged(h) ==
    [k \in DOMAIN h |->
        [h[k] EXCEPT !.age = IF @ < MaxTTL THEN @ + 1 ELSE MaxTTL]]

\* No storage constructed yet, the Redis server reachable and empty.
NoStorageYet ==
    /\ st = NoStorage
    /\ redis = [up |-> TRUE, data |-> <<>>]
    /\ sres = NoResult
    /\ hist = <<>>

(***************************************************************************)
(* Goroutines and sync.RWMutex.                                            *)
(***************************************************************************)

\* The goroutines that call the shortener and the storage: the server runs
\* every request on one of its own, the agent calls GetShortURL on others.
Tasks == {1, 2, 3}

\* What a goroutine calls the shortener and the storage with.
TaskURLs == {"https://a.test/28381", "https://a.test/61119"}
TaskIDs == {"9aca8ac7"}
TaskKeys == {"abcd1234"}

\* What a map read gives before it is done.
NoValue == [value |-> "", found |-> FALSE]

\* What a map read can give while another goroutine writes the map, besides
\* the entry before and after the write: an entry whose value is not
\* written yet.
Torn == [value |-> "", found |-> TRUE]

\* A goroutine that runs no operation.  One that does holds the operation
\* (op), the structure it works on (on: "us" or "st"), its arguments (arg,
\* id), where it is (pc), and what it read from the map (got).
Idle == [pc |-> "idle", op |-> "none", on |-> "none", arg |-> "", id |-> "",
         got |-> NoValue]

\* A sync.RWMutex nobody holds or waits for.  w is the goroutine that holds
\* the writer mutex rw.w, having announced itself to the readers (0:
\* none); locked, whether it holds the lock for writing; readers, the
\* goroutines that hold the lock for reading; waiting, the goroutines
\* blocked in RLock.
RWMutex == [w |-> 0, locked |-> FALSE, readers |-> {}, waiting |-> {}]

\* An RLock that lets a reader in whatever the writers do.
AdmitsAlways(m) == TRUE

\* RLock does not block: no writer holds or waits for the lock.
Admits(m) == m.w = 0

\* RLock by t: t holds the lock for reading, or is blocked.
RLocked(m, t) ==
    IF Admits(m) THEN [m EXCEPT !.readers = @ \cup {t}]
    ELSE [m EXCEPT !.waiting = @ \cup {t}]

\* RUnlock by t.
RUnlocked(m, t) == [m EXCEPT !.readers = @ \ {t}]

\* Lock by t, first part: rw.w.Lock(), and the readers are told.
Announced(m, t) == [m EXCEPT !.w = t]

\* Lock, second part: the readers that hold the lock have left.
Drained(m) == m.readers = {}

\* An Unlock that leaves the blocked readers blocked.
UnlockedAlone(m) == [m EXCEPT !.w = 0, !.locked = FALSE]

\* Unlock: the readers blocked meanwhile hold the lock for reading, and
\* rw.w is free.
Unlocked(m) ==
    [m EXCEPT !.w = 0, !.locked = FALSE, !.readers = m.waiting, !.waiting = {}]

\* No goroutine runs an operation and no lock is held.
NoGoroutines ==
    /\ task = [t \in Tasks |-> Idle]
    /\ mu = [us |-> RWMutex, st |-> RWMutex]

(***************************************************************************)
(* The IRC agent: sendToIRC and processMessage.                            *)
(***************************************************************************)

\* const maxLen = 400, and the 50 of the search for a space (i > end-50).
maxLen == 400
breakWindow == 50

\* n bytes that are not spaces.
RECURSIVE Fill(_)
Fill(n) ==
    IF n = 0 THEN ""
    ELSE IF n % 2 = 0 THEN Fill(n \div 2) \o Fill(n \div 2)
    ELSE "x" \o Fill(n - 1)

\* The messages sendToIRC is called with: short ones, and long ones with
\* nothing, one space, two spaces or a word between spaces at the places
\* where the search for a space begins and ends.
Messages ==
    {Fill(a) \o mid \o Fill(b) :
        a \in {0, 350, 351, 399, 400},
        mid \in {"", " ", "  ", " x "},
        b \in {0, 1, 50, 400, 401}}

\* The channels, the senders and the texts of the PRIVMSG events.
Channels == {"#agent"}
Senders == {"alice", "agent"}
Texts == {"hi", "/help"}

\* message[i], i counted from 0.
Byte(message, i) == At(message, i + 1)

\* The greatest number of the set, or other when it is empty.
Highest(set, other) ==
    IF set = {} THEN other ELSE CHOOSE i \in set : \A j \in set : j <= i

\* lastSpace after the search from end-1 down, while i > end-50 and i > 0.
lastSpace(message, end) ==
    Highest({i \in (end - breakWindow + 1)..(end - 1) :
                i > 0 /\ Byte(message, i) = " "}, end)

\* end, where the next chunk of the message stops.
chunkEnd(message) ==
    IF maxLen >= Len(message) THEN Len(message) ELSE lastSpace(message, maxLen)

\* A message after a chunk that drops every space that follows it.
restTrimmed(message, end) ==
    IF end < Len(message) /\ Byte(message, end) = " "
    THEN IF end + 1 < Len(message) /\ Byte(message, end + 1) = " "
         THEN From(message, end + 3)
         ELSE From(message, end + 2)
    ELSE From(message, end + 1)

\* message = message[end:], and message[1:] when it begins with a space.
rest(message, end) ==
    IF end < Len(message) /\ Byte(message, end) = " "
    THEN From(message, end + 2)
    ELSE From(message, end + 1)

\* What the loop of sendToIRC sends for the message: its chunks.
RECURSIVE chunks(_)
chunks(message) ==
    IF Len(message) = 0 THEN <<>>
    ELSE <<SubSeq(message, 1, chunkEnd(message))>>
         \o chunks(rest(message, chunkEnd(message)))

\* ia.sendToIRC(message, channel): the texts of the PRIVMSGs to the channel.
sendToIRC(message, channel) ==
    IF Len(message) <= maxLen THEN <<message>> ELSE chunks(message)

\* fmt.Sprintf("irc-session-%s", channel).
SessionID(channel) == "irc-session-" \o channel

\* sessionService.Get on the in-memory service: an error when there is no
\* such session.
SessionGet(sessions, sessionID) ==
    [err |-> IF sessionID \in sessions THEN NoError ELSE "session not found"]

\* sessionService.Create with a SessionID: an error when the session
\* exists, the session stored otherwise.
SessionCreate(sessions, sessionID) ==
    IF sessionID \in sessions
    THEN [sessions |-> sessions, err |-> "session already exists"]
    ELSE [sessions |-> sessions \cup {sessionID}, err |-> NoError]

\* A goroutine that runs no processMessage.
NoMessage ==
    [pc |-> "none", sender |-> "", message |-> "", channel |-> "",
     outcome |-> ""]

\* No call of sendToIRC, no event and no session yet.
NoAgent ==
    /\ irc = [pc |-> "none", channel |-> "", message |-> "", rest |-> "",
              out |-> <<>>]
    /\ sess = [event |-> NoMessage, sessions |-> {}, creates |-> 0,
               proc |-> [t \in Tasks |-> NoMessage]]

Init ==
    /\ \E h \in Hosts : us = NewURLShortener(h)
    /\ last = [op |-> "new", arg |-> "", ret |-> "", req |-> NoRequest,
               resp |-> NoResponse]
    /\ issued = <<>>
    /\ NoStorageYet
    /\ NoGoroutines
    /\ NoAgent

\* A caller (a test, the code executor) calls us.Shorten(url).
CallShorten(url) ==
    LET out == Shorten(us, url)
    IN  /\ us' = out.us
        /\ last' = [op |-> "Shorten", arg |-> url, ret |-> out.ret,
                    req |-> NoRequest, resp |-> NoResponse]
        /\ issued' = Issue(issued, us, url, out.ret)
        /\ UNCHANGED <<storage, goroutines, agent>>

\* A caller calls us.GetShortURL(url).
CallGetShortURL(url) ==
    LET out == GetShortURL(us, url)
    IN  /\ us' = out.us
        /\ last' = [op |-> "GetShortURL", arg |-> url, ret |-> out.ret,
                    req |-> NoRequest, resp |-> NoResponse]
        /\ issued' = Issue(issued, us, url, IDOf(us, out.ret))
        /\ UNCHANGED <<storage, goroutines, agent>>

\* The server answers the request r.
Request(r) ==
    LET out == ServeHTTP(us, r)
    IN  /\ us' = out.us
        /\ last' = [op |-> "HTTP", arg |-> "", ret |-> "", req |-> r,
                    resp |-> out.resp]
        /\ issued' = IF r.method = "POST" /\ out.resp.status = StatusOK
                     THEN Issue(issued, us, TrimSpace(r.body),
                                IDOf(us, out.resp.body))
                     ELSE issued
        /\ UNCHANGED <<storage, goroutines, agent>>

\* The process ends and a new one starts: main constructs a new shortener.
Restart ==
    /\ \E h \in Hosts : us' = NewURLShortener(h)
    /\ last' = [op |-> "new", arg |-> "", ret |-> "", req |-> NoRequest,
                resp |-> NoResponse]
    /\ UNCHANGED <<issued, storage, goroutines, agent>>

Next ==
    \/ \E url \in URLs : CallShorten(url)
    \/ \E url \in URLs : CallGetShortURL(url)
    \/ \E r \in Requests : Request(r)

\* One process, from its start on.
Spec == Init /\ [][Next]_vars

\* The requests that create a mapping or are refused one: a POST to the
\* root path.
Creations == {r \in Requests : r.method = "POST" /\ r.path = "/"}

\* The steps that call Shorten, and the restart of the process.  (Every
\* other request leaves us and issued as they are.)
NextRestart ==
    \/ \E url \in URLs : CallShorten(url)
    \/ \E url \in URLs : CallGetShortURL(url)
    \/ \E r \in Creations : Request(r)
    \/ Restart

\* Any number of processes, one after the other.
SpecRestart == Init /\ [][NextRestart]_vars

(***************************************************************************)
(* The storage on its own: one process constructs one backend and calls   *)
(* it, while the Redis server's clock ticks and the server comes and goes. *)
(***************************************************************************)

InitStorage ==
    /\ us = NewURLShortener("http://h:3000")
    /\ last = [op |-> "new", arg |-> "", ret |-> "", req |-> NoRequest,
               resp |-> NoResponse]
    /\ issued = <<>>
    /\ st = NoStorage
    /\ redis \in RedisServers
    /\ sres = NoResult
    /\ hist = <<>>
    /\ NoGoroutines
    /\ NoAgent

\* storage := NewInMemoryStorage().
CallNewInMemoryStorage ==
    /\ st = NoStorage
    /\ st' = NewInMemoryStorage
    /\ sres' = [NoResult EXCEPT !.op = "NewInMemoryStorage"]
    /\ UNCHANGED <<redis, hist, shortener, goroutines, agent>>

\* storage, err := NewRedisStorage(ctx, config), config.TTL = ttl; a
\* failed construction may be tried again.
CallNewRedisStorage(ttl) ==
    LET out == NewRedisStorage(redis, ttl)
    IN  /\ st \in {NoStorage, NilRedisStorage}
        /\ st' = out.st
        /\ sres' = [NoResult EXCEPT !.op = "NewRedisStorage", !.err = out.err,
                       !.sent = out.sent]
        /\ UNCHANGED <<redis, hist, shortener, goroutines, agent>>

\* storage.Set(ctx, shortID, url), before the storage is closed.
CallSet(shortID, url) ==
    LET out == Set(st, redis, shortID, url)
    IN  /\ st # NoStorage /\ Open(st)
        /\ st' = out.st
        /\ redis' = out.redis
        /\ sres' = out.res
        /\ hist' = IF out.res.panic \/ out.res.err # NoError THEN hist
                   ELSE Written(hist, shortID, url,
                                IF st.kind = "redis" THEN st.ttl ELSE 0)
        /\ UNCHANGED <<shortener, goroutines, agent>>

\* storage.Get(ctx, shortID), before the storage is closed.
CallGet(shortID) ==
    /\ st # NoStorage /\ Open(st)
    /\ sres' = Get(st, redis, shortID)
    /\ UNCHANGED <<st, redis, hist, shortener, goroutines, agent>>

\* storage.Set(ctx, shortID, url) on the RedisStorage, ctx with a deadline,
\* the server slow to answer.
CallSetWithin(shortID, url, deadline, delay) ==
    LET out == SetWithin(st, redis, shortID, url, deadline, delay)
    IN  /\ st.kind = "redis" /\ Open(st) /\ redis.up
        /\ st' = out.st
        /\ redis' = out.redis
        /\ sres' = out.res
        /\ hist' = IF out.res.err # NoError THEN hist
                   ELSE Written(hist, shortID, url, st.ttl)
        /\ UNCHANGED <<shortener, goroutines, agent>>

\* storage.Get(ctx, shortID) on the RedisStorage, ctx with a deadline, the
\* server slow to answer.
CallGetWithin(shortID, deadline, delay) ==
    /\ st.kind = "redis" /\ Open(st) /\ redis.up
    /\ sres' = GetWithin(st, redis, shortID, deadline, delay)
    /\ UNCHANGED <<st, redis, hist, shortener, goroutines, agent>>

\* storage.Close(), at shutdown: once, or again on the closed storage.
CallClose ==
    LET out == Close(st)
    IN  /\ st # NoStorage
        /\ st' = out.st
        /\ sres' = out.res
        /\ UNCHANGED <<redis, hist, shortener, goroutines, agent>>

\* The clock of the Redis server advances by one tick, some key having a
\* time to live.
Tick ==
    /\ \E k \in DOMAIN redis.data : redis.data[k].exp # 0
    /\ redis' = Expire(redis)
    /\ hist' = Aged(hist)
    /\ sres' = [NoResult EXCEPT !.op = "Tick"]
    /\ UNCHANGED <<st, shortener, goroutines, agent>>

\* The Redis server becomes unreachable.
Outage ==
    /\ st.kind # "memory" /\ redis.up
    /\ redis' = [redis EXCEPT !.up = FALSE]
    /\ sres' = [NoResult EXCEPT !.op = "Outage"]
    /\ UNCHANGED <<st, hist, shortener, goroutines, agent>>

\* The Redis server is reachable again.
Recover ==
    /\ st.kind # "memory" /\ ~redis.up
    /\ redis' = [redis EXCEPT !.up = TRUE]
    /\ sres' = [NoResult EXCEPT !.op = "Recover"]
    /\ UNCHANGED <<st, hist, shortener, goroutines, agent>>

NextStorage ==
    \/ CallNewInMemoryStorage
    \/ \E ttl \in TTLs : CallNewRedisStorage(ttl)
    \/ \E shortID \in StoreIDs, url \in StoreURLs : CallSet(shortID, url)
    \/ \E shortID \in StoreIDs : CallGet(shortID)
    \/ \E shortID \in StoreIDs, url \in StoreURLs, deadline \in Deadlines,
          delay \in Delays : CallSetWithin(shortID, url, deadline, delay)
    \/ \E shortID \in StoreIDs, deadline \in Deadlines, delay \in Delays :
          CallGetWithin(shortID, deadline, delay)
    \/ CallClose
    \/ Tick
    \/ Outage
    \/ Recover

SpecStorage == InitStorage /\ [][NextStorage]_vars

(***************************************************************************)
(* The shortener and an InMemoryStorage called by several goroutines, one  *)
(* step of one goroutine at a time.                                        *)
(***************************************************************************)

InitConcurrent ==
    /\ us = NewURLShortener("http://h:3000")
    /\ last = [op |-> "new", arg |-> "", ret |-> "", req |-> NoRequest,
               resp |-> NoResponse]
    /\ issued = <<>>
    /\ st = NewInMemoryStorage
    /\ redis = [up |-> TRUE, data |-> <<>>]
    /\ sres = NoResult
    /\ hist = <<>>
    /\ NoGoroutines
    /\ NoAgent

\* The goroutine t goes to pc and the lock it works on becomes m.
Step(t, pc, m) ==
    /\ task' = [task EXCEPT ![t].pc = pc]
    /\ mu' = [mu EXCEPT ![task[t].on] = m]

\* t calls us.Shorten(url), itself or as the handler of a POST to the root
\* path through GetShortURL.
BeginShorten(t, url) ==
    /\ task[t].pc = "idle"
    /\ task' = [task EXCEPT ![t] = [Idle EXCEPT !.pc = "Lock", !.op = "Shorten",
                                       !.on = "us", !.arg = url]]
    /\ UNCHANGED <<mu, shortener, storage, agent>>

\* t is the handler of a GET for /id, about to look id up.
BeginLookup(t, id) ==
    /\ task[t].pc = "idle"
    /\ task' = [task EXCEPT ![t] = [Idle EXCEPT !.pc = "RLock", !.op = "GET",
                                       !.on = "us", !.id = id]]
    /\ UNCHANGED <<mu, shortener, storage, agent>>

\* t calls storage.Set(ctx, shortID, url).
BeginSet(t, shortID, url) ==
    /\ task[t].pc = "idle"
    /\ task' = [task EXCEPT ![t] = [Idle EXCEPT !.pc = "Lock", !.op = "Set",
                                       !.on = "st", !.id = shortID, !.arg = url]]
    /\ UNCHANGED <<mu, shortener, storage, agent>>

\* t calls storage.Get(ctx, shortID).
BeginGet(t, shortID) ==
    /\ task[t].pc = "idle"
    /\ task' = [task EXCEPT ![t] = [Idle EXCEPT !.pc = "RLock", !.op = "Get",
                                       !.on = "st", !.id = shortID]]
    /\ UNCHANGED <<mu, shortener, storage, agent>>

\* mu.Lock(), first part: t takes the writer mutex.
Lock(t) ==
    /\ task[t].pc = "Lock"
    /\ mu[task[t].on].w = 0
    /\ Step(t, "Drain", Announced(mu[task[t].on], t))
    /\ UNCHANGED <<shortener, storage, agent>>

\* mu.Lock(), second part: no reader holds the lock, t holds it.  In
\* Shorten the digest comes next, in Set the write.
Drain(t) ==
    /\ task[t].pc = "Drain"
    /\ Drained(mu[task[t].on])
    /\ Step(t, IF task[t].op = "Shorten" THEN "hash" ELSE "write",
            [mu[task[t].on] EXCEPT !.locked = TRUE])
    /\ UNCHANGED <<shortener, storage, agent>>

\* Shorten: hash := sha256.Sum256([]byte(url)) and shortID.
Hash(t) ==
    /\ task[t].pc = "hash"
    /\ task' = [task EXCEPT ![t].pc = "write", ![t].id = ShortID(us, task[t].arg)]
    /\ UNCHANGED <<mu, shortener, storage, agent>>

\* Shorten: us.urlMap[shortID] = url.
WriteShortener(t) ==
    /\ task[t].pc = "write" /\ task[t].on = "us"
    /\ us' = store(us, task[t].id, task[t].arg).us
    /\ task' = [task EXCEPT ![t].pc = "Unlock"]
    /\ UNCHANGED <<mu, last, issued, storage, agent>>

\* Set: s.urlMap[shortID] = url.
WriteStorage(t) ==
    /\ task[t].pc = "write" /\ task[t].on = "st"
    /\ st' = InMemoryStorageSet(st, task[t].id, task[t].arg).st
    /\ task' = [task EXCEPT ![t].pc = "Unlock"]
    /\ UNCHANGED <<mu, shortener, redis, sres, hist, agent>>

\* The deferred mu.Unlock() and the return.
Unlock(t) ==
    /\ task[t].pc = "Unlock"
    /\ task' = [task EXCEPT ![t] = Idle]
    /\ mu' = [mu EXCEPT ![task[t].on] = Unlocked(@)]
    /\ UNCHANGED <<shortener, storage, agent>>

\* mu.RLock(): t holds the lock for reading, or is blocked.
RLock(t) ==
    /\ task[t].pc = "RLock"
    /\ Step(t, IF Admits(mu[task[t].on]) THEN "read" ELSE "RWait",
            RLocked(mu[task[t].on], t))
    /\ UNCHANGED <<shortener, storage, agent>>

\* t, blocked in RLock, was let in by an Unlock.
Wake(t) ==
    /\ task[t].pc = "RWait"
    /\ t \in mu[task[t].on].readers
    /\ task' = [task EXCEPT ![t].pc = "read"]
    /\ UNCHANGED <<mu, shortener, storage, agent>>

\* The goroutines about to write the map that t reads: a read and a write
\* of one map at the same time are a data race.
Racing(t) ==
    {w \in Tasks : task[w].on = task[t].on /\ task[w].pc = "write"}

\* What the map read of t can give: the entry of the map; in a data race
\* also the entry a writer is about to store, and a torn one.
Observed(t) ==
    {IF task[t].on = "us" THEN Lookup(us, task[t].id)
     ELSE [value |-> InMemoryStorageGet(st, task[t].id).url,
           found |-> InMemoryStorageGet(st, task[t].id).found]}
    \cup {[value |-> task[w].arg, found |-> TRUE] : w \in Racing(t)}
    \cup {v \in {Torn} : Racing(t) # {}}

\* The map read: originalURL, exists := us.urlMap[id], or
\* url, exists := s.urlMap[shortID].
Read(t) ==
    /\ task[t].pc = "read"
    /\ \E v \in Observed(t) :
          task' = [task EXCEPT ![t].pc = "RUnlock", ![t].got = v]
    /\ UNCHANGED <<mu, shortener, storage, agent>>

\* mu.RUnlock(); the handler then answers, Get returns.
RUnlock(t) ==
    /\ task[t].pc = "RUnlock"
    /\ task' = [task EXCEPT ![t] = Idle]
    /\ mu' = [mu EXCEPT ![task[t].on] = RUnlocked(@, t)]
    /\ UNCHANGED <<shortener, storage, agent>>

\* A step of the operation that t runs.
Run(t) ==
    \/ Lock(t)
    \/ Drain(t)
    \/ Hash(t)
    \/ WriteShortener(t)
    \/ WriteStorage(t)
    \/ Unlock(t)
    \/ RLock(t)
    \/ Wake(t)
    \/ Read(t)
    \/ RUnlock(t)

NextConcurrent ==
    \/ \E t \in Tasks, url \in TaskURLs : BeginShorten(t, url)
    \/ \E t \in Tasks, id \in TaskIDs : BeginLookup(t, id)
    \/ \E t \in Tasks, shortID \in TaskKeys, url \in TaskURLs : BeginSet(t, shortID, url)
    \/ \E t \in Tasks, shortID \in TaskKeys : BeginGet(t, shortID)
    \/ \E t \in Tasks : Run(t)

SpecConcurrent == InitConcurrent /\ [][NextConcurrent]_vars

\* The goroutines under a fair scheduler: a goroutine that can take a step
\* takes one, and sync.Mutex hands rw.w to a goroutine that keeps waiting
\* for it (its starvation mode).
SpecFair ==
    /\ InitConcurrent
    /\ [][NextConcurrent]_vars
    /\ \A t \in Tasks :
          /\ WF_vars(Drain(t) \/ Hash(t) \/ WriteShortener(t) \/ WriteStorage(t)
                     \/ Unlock(t) \/ RLock(t) \/ Wake(t) \/ Read(t) \/ RUnlock(t))
          /\ SF_vars(Lock(t))

(***************************************************************************)
(* The shortener over a URLStorage: NewURLShortener(host, storage), whose  *)
(* Shorten and GetShortURL return a string and no error, as the tests call *)
(* them.  The mapping set is what the storage holds.                       *)
(***************************************************************************)

\* The status of an answer to a GET whose storage.Get returned an error.
StatusInternalServerError == 500

\* us.Shorten(url) over the storage stg, the server being r: the
\* identifier is computed and storage.Set is called; an error of the Set
\* is logged as a warning, and the identifier is returned.
ShortenStored(s, stg, r, url) ==
    [out |-> Set(stg, r, ShortID(s, url), url), ret |-> ShortID(s, url)]

\* The requests to the server over a storage.
StoredRequests ==
    {q \in Requests : /\ q.method \in {"GET", "POST"}
                      /\ q.path \in {"/", "/b0ed97b1", "/6b7bef38", "/extra-path"}}

\* The server over the storage stg answers the request q: a POST the
\* handler accepts calls GetShortURL, which calls Shorten; a GET for an
\* identifier calls storage.Get; every other request is answered as by the
\* shortener s, which holds no mapping of its own.
ServeStored(s, stg, r, q) ==
    IF q.method = "POST" /\ ServeHTTP(s, q).resp.status = StatusOK
    THEN [st |-> ShortenStored(s, stg, r, Trimmed[q.body]).out.st,
          redis |-> ShortenStored(s, stg, r, Trimmed[q.body]).out.redis,
          res |-> ShortenStored(s, stg, r, Trimmed[q.body]).out.res,
          resp |-> [status |-> StatusOK, location |-> "",
                    body |-> s.host \o "/"
                             \o ShortenStored(s, stg, r, Trimmed[q.body]).ret]]
    ELSE IF q.method = "GET" /\ q.path # "/"
    THEN [st |-> stg, redis |-> r, res |-> Get(stg, r, TrimPrefix(q.path, "/")),
          resp |-> IF Get(stg, r, TrimPrefix(q.path, "/")).err # NoError
                   THEN Error("Internal server error", StatusInternalServerError)
                   ELSE IF ~Get(stg, r, TrimPrefix(q.path, "/")).found
                   THEN NotFound
                   ELSE Redirect(q.method, q.path,
                                 Get(stg, r, TrimPrefix(q.path, "/")).url,
                                 StatusMovedPermanently)]
    ELSE [st |-> stg, redis |-> r, res |-> NoResult, resp |-> ServeHTTP(s, q).resp]

\* main has constructed a storage, a RedisStorage on a reachable server or
\* an InMemoryStorage, and the shortener over it.
InitStored ==
    /\ us = NewURLShortener("http://h:3000")
    /\ last = [op |-> "new", arg |-> "", ret |-> "", req |-> NoRequest,
               resp |-> NoResponse]
    /\ issued = <<>>
    /\ redis = [up |-> TRUE, data |-> <<>>]
    /\ st \in {NewRedisStorage(redis, ttl).st : ttl \in TTLs} \cup {NewInMemoryStorage}
    /\ sres = NoResult
    /\ hist = <<>>
    /\ NoGoroutines
    /\ NoAgent

\* The server over the storage answers the request q.
RequestStored(q) ==
    LET out == ServeStored(us, st, redis, q)
    IN  /\ st' = out.st
        /\ redis' = out.redis
        /\ sres' = out.res
        /\ last' = [op |-> "HTTP", arg |-> "", ret |-> "", req |-> q,
                    resp |-> out.resp]
        /\ UNCHANGED <<us, issued, hist, goroutines, agent>>

NextStored ==
    \/ \E q \in StoredRequests : RequestStored(q)
    \/ Tick
    \/ Outage
    \/ Recover

SpecStored == InitStored /\ [][NextStored]_vars

(***************************************************************************)
(* The shortener of src and a storage backend in one process.  The         *)
(* URLShortener of src has no storage field and NewURLShortener takes the  *)
(* host alone, so the two are constructed apart: the shortener keeps the   *)
(* mappings in its own urlMap, and the storage is what its own Set wrote.  *)
(***************************************************************************)

\* The identifiers storage.Get is called with: those Shorten returns for
\* the URLs, and one that Shorten never returned.
ReadIDs ==
    {ShortID(NewURLShortener("http://h:3000"), url) : url \in URLs}
        \cup {"nonexistent"}

\* shortener := NewURLShortener(host), with an empty urlMap of its own;
\* storage := NewInMemoryStorage(), with an empty urlMap of its own.
InitBeside ==
    /\ us = NewURLShortener("http://h:3000")
    /\ last = [op |-> "new", arg |-> "", ret |-> "", req |-> NoRequest,
               resp |-> NoResponse]
    /\ issued = <<>>
    /\ st = NewInMemoryStorage
    /\ redis = [up |-> TRUE, data |-> <<>>]
    /\ sres = NoResult
    /\ hist = <<>>
    /\ NoGoroutines
    /\ NoAgent

\* The process calls shortener.Shorten, shortener.GetShortURL and
\* storage.Get(ctx, shortID); it does not call storage.Set itself.
NextBeside ==
    \/ \E url \in URLs : CallShorten(url)
    \/ \E url \in URLs : CallGetShortURL(url)
    \/ \E shortID \in ReadIDs : CallGet(shortID)

SpecBeside == InitBeside /\ [][NextBeside]_vars

(***************************************************************************)
(* sendToIRC, one PRIVMSG at a time.                                       *)
(***************************************************************************)

InitSend ==
    /\ us = NewURLShortener("http://h:3000")
    /\ last = [op |-> "new", arg |-> "", ret |-> "", req |-> NoRequest,
               resp |-> NoResponse]
    /\ issued = <<>>
    /\ NoStorageYet
    /\ NoGoroutines
    /\ \E channel \in Channels, message \in Messages :
          irc = [pc |-> "call", channel |-> channel, message |-> message,
                 rest |-> message, out |-> <<>>]
    /\ sess = [event |-> NoMessage, sessions |-> {}, creates |-> 0,
               proc |-> [t \in Tasks |-> NoMessage]]

\* ia.sendToIRC(message, channel) up to the loop: a message of at most
\* maxLen bytes is sent and the call returns.
CallSendToIRC ==
    /\ irc.pc = "call"
    /\ irc' = IF Len(irc.message) <= maxLen
              THEN [irc EXCEPT !.pc = "done", !.out = <<irc.message>>,
                               !.rest = ""]
              ELSE [irc EXCEPT !.pc = "loop"]
    /\ UNCHANGED <<shortener, storage, goroutines, sess>>

\* One turn of the loop: Privmsg(channel, message[:end]), and the message
\* is what follows.
SendChunk ==
    /\ irc.pc = "loop" /\ Len(irc.rest) > 0
    /\ irc' = [irc EXCEPT
                  !.out = Append(@, SubSeq(irc.rest, 1, chunkEnd(irc.rest))),
                  !.rest = rest(irc.rest, chunkEnd(irc.rest))]
    /\ UNCHANGED <<shortener, storage, goroutines, sess>>

\* The loop ends: len(message) = 0.
ReturnSend ==
    /\ irc.pc = "loop" /\ Len(irc.rest) = 0
    /\ irc' = [irc EXCEPT !.pc = "done"]
    /\ UNCHANGED <<shortener, storage, goroutines, sess>>

NextSend ==
    \/ CallSendToIRC
    \/ SendChunk
    \/ ReturnSend

SpecSend == InitSend /\ [][NextSend]_vars

\* The goroutine that runs sendToIRC keeps running.
SpecSendFair == SpecSend /\ WF_vars(NextSend)

(***************************************************************************)
(* processMessage, one goroutine for every PRIVMSG event.                  *)
(***************************************************************************)

InitSessions ==
    /\ us = NewURLShortener("http://h:3000")
    /\ last = [op |-> "new", arg |-> "", ret |-> "", req |-> NoRequest,
               resp |-> NoResponse]
    /\ issued = <<>>
    /\ NoStorageYet
    /\ NoGoroutines
    /\ NoAgent

\* The goroutine t of the task record p, the others as they are.
Proceed(t, p) == sess' = [sess EXCEPT !.proc[t] = p]

\* The PRIVMSG callback: the event is logged, and for a sender other than
\* "agent" a goroutine t runs processMessage.
Privmsg(t, sender, message, channel) ==
    /\ sess.proc[t].pc = "none"
    /\ \A other \in Tasks : other < t => sess.proc[other].pc # "none"
    /\ sess' = [sess EXCEPT
                   !.event = [NoMessage EXCEPT !.pc = "logged",
                                 !.sender = sender, !.message = message,
                                 !.channel = channel],
                   !.proc[t] = IF sender # "agent"
                               THEN [NoMessage EXCEPT !.pc = "start",
                                        !.sender = sender, !.message = message,
                                        !.channel = channel]
                               ELSE @]
    /\ UNCHANGED <<shortener, storage, goroutines, irc>>

\* processMessage, a message that begins with "/": handleCommand.
HandleCommand(t) ==
    /\ sess.proc[t].pc = "start" /\ HasPrefix(sess.proc[t].message, "/")
    /\ Proceed(t, [sess.proc[t] EXCEPT !.pc = "done", !.outcome = "command"])
    /\ UNCHANGED <<shortener, storage, goroutines, irc>>

\* processMessage: sessionService.Get; on an error the session is to be
\* created.
GetSession(t) ==
    /\ sess.proc[t].pc = "start" /\ ~HasPrefix(sess.proc[t].message, "/")
    /\ Proceed(t, [sess.proc[t] EXCEPT !.pc =
           IF SessionGet(sess.sessions, SessionID(sess.proc[t].channel)).err
                 # NoError
           THEN "Create" ELSE "Run"])
    /\ UNCHANGED <<shortener, storage, goroutines, irc>>

\* processMessage: sessionService.Create; on an error the error is logged
\* and processMessage returns.
CreateSession(t) ==
    LET out == SessionCreate(sess.sessions, SessionID(sess.proc[t].channel))
    IN  /\ sess.proc[t].pc = "Create"
        /\ sess' = [sess EXCEPT
                       !.sessions = out.sessions,
                       !.creates = IF out.err = NoError THEN @ + 1 ELSE @,
                       !.proc[t] = IF out.err = NoError
                                   THEN [@ EXCEPT !.pc = "Run"]
                                   ELSE [@ EXCEPT !.pc = "done",
                                                  !.outcome = "dropped"]]
        /\ UNCHANGED <<shortener, storage, goroutines, irc>>

\* processMessage: ia.runner.Run(ctx, channel, sessionID, content, runConfig).
RunAgent(t) ==
    /\ sess.proc[t].pc = "Run"
    /\ Proceed(t, [sess.proc[t] EXCEPT !.pc = "done", !.outcome = "ran"])
    /\ UNCHANGED <<shortener, storage, goroutines, irc>>

NextSessions ==
    \/ \E t \in Tasks, sender \in Senders, message \in Texts,
          channel \in Channels : Privmsg(t, sender, message, channel)
    \/ \E t \in Tasks : HandleCommand(t)
    \/ \E t \in Tasks : GetSession(t)
    \/ \E t \in Tasks : CreateSession(t)
    \/ \E t \in Tasks : RunAgent(t)

SpecSessions == InitSessions /\ [][NextSessions]_vars

(***************************************************************************)
(* The claims.                                                             *)
(***************************************************************************)

\* The last step was the answer to a request of method m for path p.
Answer(m, p) == last.op = "HTTP" /\ last.req.method = m /\ last.req.path = p

\* An identifier as Shorten is said to return it: 8 of 0-9, a-f.
IsShortID(id) ==
    Len(id) = 8 /\ \A i \in 1..Len(id) : At(id, i) \in Chars("0123456789abcdef")

\* A string of white space only (the empty string too).
IsBlank(b) == \A i \in 1..Len(b) : At(b, i) \in asciiSpace

\* A URL that url.Parse gives a scheme or a host, or does not parse.
IsAbsolute(url) == Parse(url).err \/ Parse(url).Scheme # "" \/ Parse(url).Host # ""

\* The values of the map m.
Range(m) == {m[k] : k \in DOMAIN m}

\* C1 as claimed: when Shorten(u) has returned id and nothing has written
\* since, the Get of id on the storage backend returns u as it was given,
\* found, and no error.
C1_Original ==
    [][(/\ last.op = "Shorten"
        /\ UNCHANGED <<shortener, st, redis>>
        /\ sres'.op = "Get" /\ sres'.id = last.ret)
       => /\ sres'.url = last.arg
          /\ sres'.found
          /\ sres'.err = NoError]_vars

\* C2 as claimed: once an identifier is bound, the value stored under it
\* never becomes a different URL.
C2_Original ==
    [][\A id \in DOMAIN us.urlMap : Lookup(us', id) = Lookup(us, id)]_vars

\* C2 amended: a bound identifier stays bound, and the value stored under
\* it changes only to the URL being shortened in that step, a URL whose
\* digest starts with that identifier.
C2_Amended ==
    [][\A id \in DOMAIN us.urlMap :
        /\ Lookup(us', id).found
        /\ Lookup(us', id).value # Lookup(us, id).value =>
            /\ Lookup(us', id).value =
                  (IF last'.op = "HTTP" THEN TrimSpace(last'.req.body) ELSE last'.arg)
            /\ ShortID(us', Lookup(us', id).value) = id]_vars

\* The identifier first returned for one URL now holds another URL.
C2_Witness ==
    /\ "https://a.test/28381" \in DOMAIN issued
    /\ Lookup(us, issued["https://a.test/28381"].id) =
          [value |-> "https://a.test/61119", found |-> TRUE]

\* C3 (determinism): for every URL shortened before, in this process or
\* one before it, the shortener as it is now (its host, its map) returns
\* the identifier returned the first time; and so did the last call.
C3_Determinism ==
    /\ \A u \in DOMAIN issued : Shorten(us, u).ret = issued[u].id
    /\ last.op = "Shorten" => last.ret = issued[last.arg].id

\* Shorten has returned an identifier for a URL first shortened by a
\* shortener of another host, in a process before, with a map that holds
\* another entry.
C3_Witness ==
    /\ last.op = "Shorten"
    /\ issued[last.arg].host # us.host
    /\ Cardinality(DOMAIN us.urlMap) >= 2

\* C4 (idempotent): right after Shorten(u) returned id, another Shorten(u)
\* returns id and leaves the shortener, its map with it, exactly as it is,
\* the entry of id holding u.
C4_Idempotent ==
    last.op = "Shorten" =>
        /\ Shorten(us, last.arg) = [us |-> us, ret |-> last.ret]
        /\ Lookup(Shorten(us, last.arg).us, last.ret).value = last.arg

\* Shorten has returned for a URL, the map holding two entries.
C4_Witness ==
    /\ last.op = "Shorten" /\ last.arg = "docs/a.txt"
    /\ Cardinality(DOMAIN us.urlMap) = 2

\* C5 (length): Shorten returns 8 characters of 0-9, a-f for every input,
\* the empty string too, and every key of the map is such a string.
C5_Length ==
    /\ \A u \in Inputs : IsShortID(Shorten(us, u).ret)
    /\ \A id \in DOMAIN us.urlMap : IsShortID(id)
    /\ last.op = "Shorten" => IsShortID(last.ret)

\* Shorten has returned e3b0c442 for the empty string and stored it.
C5_Witness ==
    /\ last.op = "Shorten" /\ last.arg = "" /\ last.ret = "e3b0c442"
    /\ Lookup(us, "e3b0c442").found

\* C6 (composition): GetShortURL(u) returns the host as constructed, "/"
\* and Shorten(u), and has stored u under Shorten(u).
C6_Composition ==
    last.op = "GetShortURL" =>
        /\ last.ret = us.host \o "/" \o Shorten(us, last.arg).ret
        /\ Lookup(us, Shorten(us, last.arg).ret) = [value |-> last.arg, found |-> TRUE]

\* GetShortURL has returned a short URL with two slashes, for a host that
\* ends with one.
C6_Witness ==
    /\ last.op = "GetShortURL" /\ last.arg = "docs/a.txt"
    /\ last.ret = "http://example.com:3000//6b7bef38"

\* C7 as claimed: a GET for /<id>, id not empty, is answered 301 with the
\* stored URL as Location when id is in the map, and 404 when it is not.
C7_Original ==
    (last.op = "HTTP" /\ last.req.method = "GET"
     /\ TrimPrefix(last.req.path, "/") # "") =>
        IF Lookup(us, TrimPrefix(last.req.path, "/")).found
        THEN /\ last.resp.status = StatusMovedPermanently
             /\ last.resp.location = Lookup(us, TrimPrefix(last.req.path, "/")).value
        ELSE last.resp.status = StatusNotFound

\* C7 amended: a GET for /<id>, id not empty, whose path is not in
\* canonical form is answered 301 with the canonical path as Location.
\* One whose path is in canonical form is answered 404 when id is not in
\* the map, and 301 when it is: with the stored URL as Location when the
\* URL has a scheme or a host (or does not parse), and else with the
\* rooted, cleaned path the URL stands for at the request path.
C7_Amended ==
    (last.op = "HTTP" /\ last.req.method = "GET"
     /\ TrimPrefix(last.req.path, "/") # "") =>
        IF cleanPath(last.req.path) # last.req.path
        THEN /\ last.resp.status = StatusMovedPermanently
             /\ last.resp.location = cleanPath(last.req.path)
        ELSE IF ~Lookup(us, TrimPrefix(last.req.path, "/")).found
        THEN last.resp.status = StatusNotFound /\ last.resp.location = ""
        ELSE /\ last.resp.status = StatusMovedPermanently
             /\ last.resp.location =
                  IF IsAbsolute(Lookup(us, TrimPrefix(last.req.path, "/")).value)
                  THEN Lookup(us, TrimPrefix(last.req.path, "/")).value
                  ELSE CleanURL("/" \o Lookup(us, TrimPrefix(last.req.path, "/")).value)

\* A GET for the identifier of docs/a.txt was answered 301 with the
\* Location /docs/a.txt.
C7_Witness ==
    /\ Answer("GET", "/6b7bef38")
    /\ Lookup(us, "6b7bef38") = [value |-> "docs/a.txt", found |-> TRUE]
    /\ last.resp.status = StatusMovedPermanently
    /\ last.resp.location = "/docs/a.txt"

\* C8 (creation): a POST to the root path whose body was read and is t
\* between white space, t not empty, is answered 200 with the host, "/" and
\* Shorten(t); t is then stored under Shorten(t), and a GET for that
\* identifier is answered 301 with the Location of t.
C8_Creation ==
    (Answer("POST", "/") /\ ~last.req.readErr /\ ~IsBlank(last.req.body)) =>
        /\ last.resp.status = StatusOK
        /\ last.resp.body = us.host \o "/" \o Shorten(us, TrimSpace(last.req.body)).ret
        /\ ~IsBlank(At(TrimSpace(last.req.body), 1))
        /\ ~IsBlank(At(TrimSpace(last.req.body), Len(TrimSpace(last.req.body))))
        /\ Lookup(us, IDOf(us, last.resp.body)) =
              [value |-> TrimSpace(last.req.body), found |-> TRUE]
        /\ ServeHTTP(us, [method |-> "GET", path |-> "/" \o IDOf(us, last.resp.body),
                          body |-> "", readErr |-> FALSE]).resp.status
              = StatusMovedPermanently
        /\ ServeHTTP(us, [method |-> "GET", path |-> "/" \o IDOf(us, last.resp.body),
                          body |-> "", readErr |-> FALSE]).resp.location
              = RedirectURL("/" \o IDOf(us, last.resp.body), TrimSpace(last.req.body))
        /\ IsAbsolute(TrimSpace(last.req.body)) =>
              ServeHTTP(us, [method |-> "GET", path |-> "/" \o IDOf(us, last.resp.body),
                             body |-> "", readErr |-> FALSE]).resp.location
                  = TrimSpace(last.req.body)

\* The POST of " https://foo.test/x\n" to the shortener of host
\* http://h:3000 was answered with http://h:3000/b0ed97b1.
C8_Witness ==
    /\ Answer("POST", "/") /\ last.req.body = " https://foo.test/x\n"
    /\ us.host = "http://h:3000"
    /\ last.resp.status = StatusOK
    /\ last.resp.body = "http://h:3000/b0ed97b1"
    /\ Lookup(us, "b0ed97b1").value = "https://foo.test/x"

\* C9 as claimed: a POST to a path other than the root is answered 400 and
\* creates no mapping.
C9_Original ==
    [][(last'.op = "HTTP" /\ last'.req.method = "POST" /\ last'.req.path # "/") =>
          last'.resp.status = StatusBadRequest /\ us' = us]_vars

\* C9 amended: a POST to a path other than the root creates no mapping; it
\* is answered 400 when the path is in canonical form, and 301 with the
\* canonical path as Location when it is not.
C9_Amended ==
    [][(last'.op = "HTTP" /\ last'.req.method = "POST" /\ last'.req.path # "/") =>
          /\ us' = us
          /\ IF cleanPath(last'.req.path) = last'.req.path
             THEN last'.resp.status = StatusBadRequest
             ELSE /\ last'.resp.status = StatusMovedPermanently
                  /\ last'.resp.location = cleanPath(last'.req.path)]_vars

\* A POST of a URL to the path // was answered 301 with the Location /.
C9_Witness ==
    /\ Answer("POST", "//") /\ last.req.body = "docs/a.txt"
    /\ last.resp.status = StatusMovedPermanently
    /\ last.resp.location = "/"

\* C10 (empty body): a POST to the root path with a body of white space
\* only, or none, is answered 400 and changes no mapping; and no request
\* adds a mapping to the empty URL.
C10_EmptyBody ==
    [][/\ (last'.op = "HTTP" /\ last'.req.method = "POST" /\ last'.req.path = "/"
           /\ IsBlank(last'.req.body)) =>
              last'.resp.status = StatusBadRequest /\ us' = us
       /\ (last'.op = "HTTP" /\ "" \in Range(us'.urlMap)) =>
              "" \in Range(us.urlMap)]_vars

\* A POST of white space to the root path was answered 400, the map
\* holding an entry.
C10_Witness ==
    /\ Answer("POST", "/") /\ last.req.body = " \t\r\n" /\ ~last.req.readErr
    /\ last.resp.status = StatusBadRequest
    /\ last.resp.body = "URL cannot be empty\n"
    /\ us.urlMap # <<>>

\* C11 as claimed: a request of a method other than GET and POST is
\* answered 405 at every path and changes no mapping.
C11_Original ==
    [][(last'.op = "HTTP" /\ last'.req.method \notin {"GET", "POST"}) =>
          last'.resp.status = StatusMethodNotAllowed /\ us' = us]_vars

\* C11 amended: a request of a method other than GET and POST changes no
\* mapping and is never answered with the banner or a stored URL; it is
\* answered 405 when its path is in canonical form or its method is
\* CONNECT, and else 301 with the canonical path as Location.
C11_Amended ==
    [][(last'.op = "HTTP" /\ last'.req.method \notin {"GET", "POST"}) =>
          /\ us' = us
          /\ last'.resp.body # Banner
          /\ IF last'.req.method = "CONNECT"
                \/ cleanPath(last'.req.path) = last'.req.path
             THEN last'.resp = Error("Method not allowed", StatusMethodNotAllowed)
             ELSE /\ last'.resp.status = StatusMovedPermanently
                  /\ last'.resp.location = cleanPath(last'.req.path)]_vars

\* A DELETE for the path of a stored identifier was answered 405, and a
\* DELETE for the path /a/../9aca8ac7 would be answered 301 by the mux.
C11_Witness ==
    /\ Answer("DELETE", "/9aca8ac7") /\ Lookup(us, "9aca8ac7").found
    /\ last.resp.status = StatusMethodNotAllowed
    /\ last.resp.location = ""
    /\ ServeHTTP(us, [last.req EXCEPT !.path = "/a/../9aca8ac7"]).resp.status
          = StatusMovedPermanently

\* The last storage operation was a Get of shortID on a handle that is not
\* nil.
Got(shortID) ==
    sres.op = "Get" /\ sres.id = shortID /\ st.kind \in {"memory", "redis"}

\* C12 as claimed: a Get of an identifier never stored returns the empty
\* URL, not found, and no error, whatever the backend and its state.
C12_Original ==
    \A shortID \in StoreIDs :
        (Got(shortID) /\ shortID \notin DOMAIN hist) =>
            sres.url = "" /\ ~sres.found /\ sres.err = NoError

\* C12 amended: a Get of an identifier never stored returns the empty URL
\* and not found; it returns no error on the InMemoryStorage and on a
\* RedisStorage whose server answers, and the error of the command on a
\* RedisStorage whose server does not.
C12_Amended ==
    \A shortID \in StoreIDs :
        (Got(shortID) /\ shortID \notin DOMAIN hist) =>
            /\ sres.url = "" /\ ~sres.found
            /\ sres.err = IF st.kind = "redis" /\ ~redis.up THEN ConnError
                          ELSE NoError

\* A Get of an identifier never stored, on a RedisStorage that holds
\* another identifier and whose server does not answer, returned an error.
C12_Witness ==
    /\ Got("nonexistent") /\ st.kind = "redis" /\ ~redis.up
    /\ DOMAIN hist = {"abcd1234"}
    /\ Key("abcd1234") \in DOMAIN redis.data
    /\ sres.err # NoError /\ ~sres.found

\* C13 (in-process storage): Set returns no error, and Get returns for
\* every identifier the URL of the most recent Set for it, found and
\* without error, and nothing for an identifier never set.
C13_InMemory ==
    st.kind = "memory" =>
        /\ sres.op = "Set" => sres.err = NoError /\ sres.id \in DOMAIN hist
        /\ \A shortID \in StoreIDs :
              InMemoryStorageGet(st, shortID) =
                 IF shortID \in DOMAIN hist
                 THEN [url |-> hist[shortID].url, found |-> TRUE, err |-> NoError]
                 ELSE [url |-> "", found |-> FALSE, err |-> NoError]
        /\ \A shortID \in StoreIDs :
              (Got(shortID) /\ shortID \in DOMAIN hist) =>
                 /\ sres.url = hist[shortID].url
                 /\ sres.found /\ sres.err = NoError

\* A Get of an identifier set twice, last to the empty URL, returned the
\* empty URL as found, the other identifier still holding its URL.
C13_Witness ==
    /\ st.kind = "memory" /\ Got("abcd1234")
    /\ StoreIDs \subseteq DOMAIN hist
    /\ hist["abcd1234"].n = MaxWrites /\ hist["abcd1234"].url = ""
    /\ sres.url = "" /\ sres.found
    /\ InMemoryStorageGet(st, "nonexistent").url = "https://example.com/test"

\* C18 (absence and failure): a Get on a RedisStorage for a key the server
\* does not hold, one that expired too, returns the empty URL, not found,
\* no error; a Get the server does not answer returns the empty URL, not
\* found, and the error; an error never comes with found or a URL.
C18_AbsenceOrFailure ==
    \A shortID \in StoreIDs :
        (Got(shortID) /\ st.kind = "redis") =>
            /\ (redis.up /\ Key(shortID) \notin DOMAIN redis.data) =>
                  sres.url = "" /\ ~sres.found /\ sres.err = NoError
            /\ ~redis.up =>
                  sres.url = "" /\ ~sres.found /\ sres.err \notin {NoError, RedisNil}
            /\ sres.err # NoError => sres.url = "" /\ ~sres.found
            /\ (redis.up /\ Key(shortID) \in DOMAIN redis.data) =>
                  sres.found /\ sres.err = NoError

\* A Get of an identifier that was stored and has expired returned not
\* found and no error.
C18_Witness ==
    /\ Got("abcd1234") /\ st.kind = "redis" /\ redis.up
    /\ "abcd1234" \in DOMAIN hist
    /\ Key("abcd1234") \notin DOMAIN redis.data
    /\ sres.url = "" /\ ~sres.found /\ sres.err = NoError

\* C19 (fail-fast construction): NewRedisStorage sends one PING; when the
\* server does not answer it returns an error and the nil handle, and else
\* a handle and no error.  A SET or GET is sent only through a handle, and
\* a call on the nil handle sends nothing.
C19_FailFast ==
    /\ sres.op = "NewRedisStorage" =>
          /\ sres.sent = <<"PING">>
          /\ IF redis.up
             THEN st.kind = "redis" /\ sres.err = NoError
             ELSE st = NilRedisStorage /\ sres.err # NoError
    /\ sres.op \in {"Set", "Get"} =>
          /\ st = NilRedisStorage => sres.sent = <<>> /\ sres.panic
          /\ sres.sent # <<>> => st.kind = "redis"
    /\ st = NilRedisStorage => redis.data = <<>>

\* NewRedisStorage failed, and the Set called on what it returned sent
\* nothing to the server, which is reachable by now.
C19_Witness ==
    /\ st = NilRedisStorage /\ redis.up
    /\ sres.op = "Set" /\ sres.panic /\ sres.sent = <<>>

\* The last step was a Set of a RedisStorage that returned no error.
SetDone == sres'.op = "Set" /\ st.kind = "redis" /\ sres'.err = NoError

\* The last step was a Get of a RedisStorage for an identifier written
\* before.
GetWritten == sres'.op = "Get" /\ st.kind = "redis" /\ sres'.id \in DOMAIN hist

\* The write of the history for the identifier of the last Get has not
\* expired.
Fresh == hist[sres'.id].ttl = 0 \/ hist[sres'.id].age < hist[sres'.id].ttl

\* C20 as claimed: a Set writes the key "url:" + id with the configured
\* TTL, and a Get of an identifier returns the URL of its last Set, found
\* and without error, until that TTL has elapsed (never, for TTL 0).
C20_Original ==
    [][/\ SetDone =>
             redis'.data = MapSet(redis.data, "url:" \o sres'.id,
                                  [val |-> sres'.arg, exp |-> st.ttl])
       /\ (GetWritten /\ Fresh) =>
             /\ sres'.url = hist[sres'.id].url
             /\ sres'.found /\ sres'.err = NoError]_vars

\* C20 amended: a Set writes the key "url:" + id with the configured TTL,
\* the same for every write; a Get the server answers returns the URL of
\* the last Set of the identifier, found, until that TTL has elapsed
\* (never, for TTL 0) and not found after; a Get the server does not
\* answer returns the error.
C20_Amended ==
    [][/\ SetDone =>
             /\ redis'.data = MapSet(redis.data, "url:" \o sres'.id,
                                     [val |-> sres'.arg, exp |-> st.ttl])
             /\ \A shortID \in DOMAIN hist' : hist'[shortID].ttl = st.ttl
       /\ GetWritten =>
             IF ~redis.up
             THEN sres'.url = "" /\ ~sres'.found /\ sres'.err # NoError
             ELSE IF Fresh
             THEN /\ sres'.url = hist[sres'.id].url
                  /\ sres'.found /\ sres'.err = NoError
             ELSE sres'.url = "" /\ ~sres'.found /\ sres'.err = NoError]_vars

\* A second Set of an identifier, one tick after the first, has given the
\* key the whole time to live again.
C20_Witness ==
    /\ sres.op = "Set" /\ st.kind = "redis" /\ st.ttl = MaxTTL
    /\ sres.id \in DOMAIN hist /\ hist[sres.id].n = 2
    /\ \E other \in DOMAIN hist : hist[other].age = 1
    /\ redis.data[Key(sres.id)].exp = MaxTTL

\* The goroutines inside the critical section of the lock m for writing:
\* between Lock and Unlock.
Writers(m) ==
    {t \in Tasks : task[t].on = m /\ task[t].pc \in {"hash", "write", "Unlock"}}

\* The goroutines inside the critical section of the lock m for reading:
\* between RLock and RUnlock.
Readers(m) ==
    {t \in Tasks : task[t].on = m /\ task[t].pc \in {"read", "RUnlock"}}

\* C14 (reader/writer exclusion): for the map of the shortener and for the
\* map of the storage, at most one writer is inside the critical section,
\* and no reader is inside while a writer is.
C14_Exclusion ==
    \A m \in {"us", "st"} :
        /\ Cardinality(Writers(m)) <= 1
        /\ Writers(m) # {} => Readers(m) = {}
        /\ Writers(m) = IF mu[m].locked THEN {mu[m].w} ELSE {}
        /\ Readers(m) \subseteq mu[m].readers

\* Two handlers of GET are reading the shortener's map together while a
\* Shorten waits for the lock.
C14_Witness ==
    /\ Cardinality(Readers("us")) = 2
    /\ \E t \in Tasks : task[t].op = "Shorten" /\ task[t].pc = "Drain"

\* C15 as claimed: a goroutine computes the digest of the URL while it does
\* not hold the lock.
C15_Original ==
    \A t \in Tasks :
        task[t].pc = "hash" => ~(mu.us.locked /\ mu.us.w = t)

\* C16 as claimed: the shortener keeps no mapping of its own; every
\* identifier it resolves is one that the storage backend's Get finds.
C16_Original ==
    \A id \in DOMAIN us.urlMap : InMemoryStorageGet(st, id).found

\* A goroutine holds a lock only while it runs an operation on that
\* structure, between taking the lock and releasing it.
HeldByRunning ==
    \A m \in {"us", "st"} :
        /\ mu[m].w # 0 =>
              task[mu[m].w].on = m
              /\ task[mu[m].w].pc \in {"Drain", "hash", "write", "Unlock"}
        /\ \A t \in mu[m].readers :
              task[t].on = m /\ task[t].pc \in {"RWait", "read", "RUnlock"}
        /\ \A t \in mu[m].waiting : task[t].on = m /\ task[t].pc = "RWait"

\* C17 (no operation blocks for ever): under a fair scheduler every
\* operation a goroutine has begun returns, and a lock is held only by a
\* goroutine that is running an operation: none is held after the return.
C17_Completes ==
    /\ []HeldByRunning
    /\ \A t \in Tasks : (task[t].pc # "idle") ~> (task[t].pc = "idle")

\* A reader is blocked behind a Shorten that waits for another reader to
\* leave.
C17_Witness ==
    /\ \E t \in Tasks : task[t].pc = "RWait" /\ task[t].on = "us"
    /\ \E t \in Tasks : task[t].pc = "Drain" /\ task[t].on = "us"
    /\ Readers("us") # {}


\* C21: Close is idempotent and always safe: on either backend, used or
\* not, every Close returns nil, a second Close after a first included.
C21_Original ==
    (sres.op = "Close" /\ st.kind \in {"memory", "redis"}) =>
        sres.err = NoError


\* A GET request for the root path.
GetRoot == [method |-> "GET", path |-> "/", body |-> "", readErr |-> FALSE]

\* C24 (the banner): in every state of the mapping set a GET for the root
\* path is answered 200 with the usage text and leaves the shortener as it
\* is; the answer is that of a shortener with no mapping.
C24_Banner ==
    /\ ServeHTTP(us, GetRoot).us = us
    /\ ServeHTTP(us, GetRoot).resp =
          [status |-> 200, location |-> "",
           body |-> "URL Shortener Service\nUsage:\n"
                    \o "  GET  /<short-id> - Redirect to original URL\n"
                    \o "  POST /           - Create short URL (send URL in body)\n"]
    /\ ServeHTTP(us, GetRoot).resp = ServeHTTP(NewURLShortener(us.host), GetRoot).resp
    /\ Answer("GET", "/") => last.resp = ServeHTTP(us, GetRoot).resp

\* A GET for the root path was answered with the usage text by a shortener
\* that holds three mappings.
C24_Witness ==
    /\ Answer("GET", "/") /\ last.req = GetRoot
    /\ Cardinality(DOMAIN us.urlMap) = 3
    /\ last.resp.status = StatusOK /\ last.resp.body = Banner

\* C25 as claimed: Shorten("") returns an identifier of 8 characters and
\* stores the mapping to ""; the Get of the identifier on the storage then
\* returns "" and found, and the Get of an identifier never returned returns
\* "" and not found.
C25_Original ==
    [][(/\ last.op = "Shorten" /\ last.arg = ""
        /\ UNCHANGED <<shortener, st, redis>>
        /\ sres'.op = "Get")
       => /\ Len(last.ret) = 8
          /\ sres'.id = last.ret =>
                 sres'.url = "" /\ sres'.found /\ sres'.err = NoError
          /\ sres'.id = "nonexistent" =>
                 sres'.url = "" /\ ~sres'.found /\ sres'.err = NoError]_vars

\* C26 (no deletion): a step of Shorten, GetShortURL or the server keeps
\* every identifier of the mapping set: the identifier is found after the
\* step, and a GET for its path is answered 301.
C26_NoDeletion ==
    [][\A id \in DOMAIN us.urlMap :
          /\ Lookup(us', id).found
          /\ ("/" \o id) \in Paths =>
                ServeHTTP(us', [GetRoot EXCEPT !.path = "/" \o id]).resp.status
                    = StatusMovedPermanently]_vars

\* A GET for an identifier stored first was answered 301 after two more
\* identifiers were stored.
C26_Witness ==
    /\ Answer("GET", "/9aca8ac7") /\ last.resp.status = StatusMovedPermanently
    /\ Cardinality(DOMAIN us.urlMap) = 3
    /\ Cardinality(DOMAIN issued) = 4

\* C28 (frame): a request that changes the mapping set is a POST to the root
\* path with a body that is not blank; a GET and a request answered 400,
\* 404 or 405 leave the shortener as it is, and so does Close the
\* InMemoryStorage that holds the mapping set.
C28_Frame ==
    [][/\ (last'.op = "HTTP" /\ us'.urlMap # us.urlMap) =>
             /\ last'.req.method = "POST" /\ last'.req.path = "/"
             /\ ~IsBlank(last'.req.body) /\ ~last'.req.readErr
             /\ last'.resp.status = StatusOK
       /\ (/\ last'.op = "HTTP"
           /\ \/ last'.req.method = "GET"
              \/ last'.resp.status \in {StatusBadRequest, StatusNotFound,
                                        StatusMethodNotAllowed}) => us' = us
       /\ InMemoryStorageClose([kind |-> "memory", urlMap |-> us'.urlMap])
             = [st |-> [kind |-> "memory", urlMap |-> us'.urlMap],
                err |-> NoError]]_vars

\* A GET for a path of no identifier was answered 404 by a shortener that
\* holds mappings.
C28_Witness ==
    /\ Answer("GET", "/doesnotexist12") /\ last.resp.status = StatusNotFound
    /\ DOMAIN us.urlMap = {"9aca8ac7", "b0ed97b1"}


\* C27 (atomic visibility): a GET for /id that has read the map, whatever
\* Shorten calls ran beside it, found no entry (404) or the whole entry of
\* a URL that Shorten was called with and that has this identifier (301,
\* Location that URL).  A GET that comes after a Shorten has returned is
\* answered 301: the identifier is in the map, with such a URL, when a
\* Shorten returns; no step takes an identifier out of the map; and the
\* read of a GET gives the entry the map holds at that step.
C27_Visibility ==
    /\ [](\A t \in Tasks :
            (task[t].op = "GET" /\ task[t].pc = "RUnlock") =>
                \/ task[t].got = NoValue
                \/ /\ task[t].got.found
                   /\ task[t].got.value \in TaskURLs
                   /\ ShortID(us, task[t].got.value) = task[t].id
                   /\ Redirect("GET", "/" \o task[t].id, task[t].got.value,
                               StatusMovedPermanently).location
                         = task[t].got.value)
    /\ [][/\ \A t \in Tasks :
              (task[t].op = "Shorten" /\ task[t].pc = "Unlock"
                   /\ task'[t].pc = "idle") =>
                  /\ Lookup(us', task[t].id).found
                  /\ Lookup(us', task[t].id).value \in TaskURLs
                  /\ ShortID(us', Lookup(us', task[t].id).value) = task[t].id
          /\ DOMAIN us.urlMap \subseteq DOMAIN us'.urlMap
          /\ \A t \in Tasks :
              (task[t].op = "GET" /\ task[t].pc = "read"
                   /\ task'[t].pc = "RUnlock") =>
                  task'[t].got = Lookup(us, task[t].id)]_vars

\* A GET has read the whole entry while a second Shorten waits for it to
\* leave and another GET is blocked behind that Shorten.
C27_Witness ==
    \E t \in Tasks :
        /\ task[t].op = "GET" /\ task[t].pc = "RUnlock"
        /\ task[t].got.found
        /\ task[t].got = Lookup(us, task[t].id)
        /\ \E w \in Tasks : task[w].op = "Shorten" /\ task[w].pc = "Drain"
        /\ \E r \in Tasks : task[r].op = "GET" /\ task[r].pc = "RWait"


\* C22 (deadline): a Set or Get on the RedisStorage called with a context
\* that has a deadline returns by the deadline: the caller does not wait for
\* an answer that comes later.
C22_Original ==
    (sres.op \in {"Set", "Get"} /\ st.kind = "redis" /\ sres.deadline # 0) =>
        sres.took <= sres.deadline


\* C23 (storage failure): a request in whose service the storage returned
\* an error is answered with an error status.
C23_Original ==
    (last.op = "HTTP" /\ sres.op \in {"Set", "Get"} /\ sres.err # NoError) =>
        last.resp.status >= 400


\* The message m is the texts out[k], out[k+1], ... in this order, with
\* nothing or one space after each of them.
RECURSIVE Rejoins(_, _, _)
Rejoins(m, out, k) ==
    /\ HasPrefix(m, out[k])
    /\ IF k = Len(out)
       THEN From(m, Len(out[k]) + 1) \in {"", " "}
       ELSE \/ Rejoins(From(m, Len(out[k]) + 1), out, k + 1)
            \/ /\ HasPrefix(From(m, Len(out[k]) + 1), " ")
               /\ Rejoins(From(m, Len(out[k]) + 2), out, k + 1)

\* C29 (sendToIRC): the call returns; when it has, a message of at most
\* 400 bytes was sent as one PRIVMSG, and a longer one as chunks in the
\* order of the message, each of 1 to 400 bytes, that give the message back
\* but for at most one space after each chunk; what was sent is what
\* sendToIRC gives for the message.
C29_Chunks ==
    /\ [](irc.pc = "done" =>
            /\ irc.out = sendToIRC(irc.message, irc.channel)
            /\ Len(irc.message) <= 400 => irc.out = <<irc.message>>
            /\ Len(irc.message) > 400 =>
                  /\ Len(irc.out) >= 1
                  /\ \A k \in 1..Len(irc.out) :
                        Len(irc.out[k]) >= 1 /\ Len(irc.out[k]) <= 400
                  /\ Rejoins(irc.message, irc.out, 1))
    /\ [][irc.pc = "loop" /\ irc'.pc = "loop" => Len(irc'.rest) < Len(irc.rest)]_vars
    /\ <>(irc.pc = "done")

\* A message of 802 bytes with two spaces where the first chunk ends was
\* sent as three chunks, the first of 399 bytes.
C29_Witness ==
    /\ irc.pc = "done" /\ Len(irc.message) = 802
    /\ Len(irc.out) = 3 /\ Len(irc.out[1]) = 399
    /\ At(irc.out[2], 1) = " "

\* C30 (ensure session): whatever the interleaving of the processMessage
\* goroutines of a channel, its session is created at most once, and every
\* message that is no command has been passed to the runner when its
\* goroutine ends.
C30_Original ==
    /\ sess.creates <= 1
    /\ \A t \in Tasks :
          (sess.proc[t].pc = "done" /\ ~HasPrefix(sess.proc[t].message, "/")) =>
              sess.proc[t].outcome = "ran"

=============================================================================
